---- MODULE Spec2Model ----
(***************************************************************************)
(* Verification model of the trend-monitor collection core:                *)
(*   - retry_with_backoff            (app/collectors/retry.py)             *)
(*   - CollectionResult              (app/collectors/base.py)              *)
(*   - the five collectors' collect() loops                                *)
(*   - DailyQuotaRateLimiter.consume (app/collectors/rate_limiters.py)     *)
(*   - CollectionOrchestrator.collect_all (app/collectors/orchestrator.py) *)
(*                                                                         *)
(* Three specifications share the variables below:                         *)
(*   SpecRetry   the retry wrapper around an arbitrary function            *)
(*   SpecCollect one collector's collect() over a topic list               *)
(*   SpecOrch    collect_all over concurrently running collectors          *)
(***************************************************************************)
EXTENDS Integers, Sequences, FiniteSets, TLC

VARIABLES
    \* ---- retry_with_backoff: decorator arguments and wrapper frame ----
    max_attempts,     \* decorator argument
    backoff_base,     \* decorator argument
    exceptions,       \* decorator argument: set of exception type names
    attempt,          \* loop variable of `for attempt in range(1, max_attempts + 1)`
    call_count,       \* number of times the wrapped function was called
    sleeps,           \* sequence of asyncio.sleep() durations, in order
    w_trace,          \* outcome of every call of the wrapped function, in order
    w_pc,             \* "idle" | "call" | "sleep" | "returned" | "raised"
    w_result,         \* what the wrapper returned ("value", "None") or raised

    \* ---- one collector's collect() frame ----
    kind,             \* which collector class
    topics,           \* the topics argument (sequence of item ids)
    idx,              \* position of the item being fetched (1-based)
    c_pc,             \* "idle" | "start" | "loop" | "fetch" | "site_loop" |
                      \* "fetch_site" | "build" | "returned" | "raised"
    all_data,         \* records appended so far
    successful_calls,
    failed_calls,
    errors,
    c_result,         \* the CollectionResult returned, or the exception raised
    usage,            \* api_quota_usage.units_used for ("youtube", today)
    channel_cache,    \* YouTubeCollector.channel_cache keys
    quota_refused,    \* items whose consume() pre-check was refused
    quota_hit,        \* items during whose fetch the API answered 403
    usage_before,     \* today's usage when the fetch of the current item began
    net_calls,        \* number of YouTube API requests sent by this collect()
    top_sites,        \* SimilarWebSocial: number of sites of the current category
    site_idx,         \* SimilarWebSocial: position in top_sites

    \* ---- CollectionOrchestrator.collect_all frame ----
    collectors,       \* self.collectors: sequence of collector names
    o_topics,         \* the topics argument
    task,             \* per collector: state of its collect() task
    finished,         \* order in which the tasks finished
    results,          \* the local dictionary `results` of collect_all
    o_return,         \* what collect_all returned or raised
    o_pc,             \* "idle" | "gather" | "returned" | "raised"

    \* ---- RequestsPerMinuteRateLimiter and the clock it reads ----
    rl_limit,         \* self.limit
    rl_window,        \* self.window_seconds, in clock ticks
    rl_requests,      \* self.requests: deque of timestamps
    rl_clock,         \* last value returned by datetime.now()
    rl_admitted,      \* every timestamp ever recorded, in order
    rl_wake,          \* wait_until of the acquire() that is asleep
    rl_pc,            \* "idle" | "ready" | "sleeping"

    \* ---- DailyQuotaRateLimiter over the api_quota_usage table ----
    q_limit,          \* daily_limit
    q_start,          \* units_used stored for the key before the callers start
    q_rows,           \* committed rows of the (api_name, today) key: their units_used
    q_pending,        \* per session: rows as seen inside its open transaction
    q_lock,           \* session whose transaction holds the key's row lock, or 0
    q_mode,           \* per caller: "increment" | "consume"
    q_session,        \* per caller: the db_session of its limiter
    q_units,          \* per caller: the units argument
    q_pc,             \* per caller: position in increment_usage / consume
    q_seen,           \* per caller: usage read by can_consume on entry
    q_exc,            \* per caller: exc_type handed to __aexit__ ("unset" before)
    q_added,          \* per caller: growth of units_used caused by its upsert
    q_ret,            \* per caller: new_total returned by increment_usage

    \* ---- momentum score of one trend ----
    s_reddit,         \* reddit_velocity: a score, or None
    s_youtube,        \* youtube_traction: a score, or None
    s_google,         \* google_trends_spike: a score, or None
    s_spike,          \* similarweb_traffic_spike
    s_safe,           \* result of calculate_momentum_score_safe
    s_strict,         \* result of calculate_momentum_score
    s_pc,             \* "idle" | "input" | "scored"

    \* ---- one call of a normalizer ----
    n_fn,             \* name of the function called
    n_args,           \* its arguments
    n_out,            \* the float it returned, or the exception it raised
    n_pc,             \* "idle" | "input" | "done"

    \* ---- triggers, collection runs and the scheduler ----
    p_collections,    \* the data_collections table: rows in order of insertion
    p_jobs,           \* ids of the one-time jobs pending in the scheduler
    p_failures,       \* units_used of the scheduler_failures row (0: no row)
    p_proc,           \* the triggers started so far, each with its position
    \* ---- api_quota_usage across dates, processes and limiter instances ----
    d_today,          \* what date.today() returns
    d_table,          \* committed rows: (api_name, date) -> <<>> or <<units_used>>
    d_tx,             \* the rows as the running process's session sees them
    d_proc,           \* number of the running process
    d_limiters,       \* DailyQuotaRateLimiter instances in order of creation
    d_read,           \* per instance and date: last value its get_usage_today returned
    d_spent,          \* (api_name, date) -> units of the committed increment_usage calls
    d_unsaved,        \* the same for the calls of the open transaction
    \* ---- GoogleTrendsCollector.collect: the delay between topic fetches ----
    gt_clock,         \* what datetime.now() returns, in seconds
    gt_last,          \* self.last_request_time (-1: None)
    gt_pc,            \* position of the collector instance
    gt_n,             \* len(topics) of the running collect()
    gt_idx,           \* loop index i
    gt_collects,      \* collect() calls finished on this instance
    gt_wake,          \* when the pending asyncio.sleep is due
    gt_start,         \* when the last topic fetch started (-1: none yet)
    gt_end,           \* when the topic fetch before it ended (-1: none)
    gt_outcome,       \* how that earlier fetch ended
    \* ---- calculate_and_update_scores on the trends of one collection ----
    u_trends,         \* the Trend objects loaded into the session
    u_idx,            \* position of the loop over the trends
    u_stored,         \* the rows of the collection as committed
    u_degraded,       \* degraded_count
    u_pc,             \* position of the call
    \* ---- tasks sharing one RequestsPerMinuteRateLimiter ----
    lc_pc,            \* per task: outside acquire(), or asleep inside it
    lc_wake           \* per task: when its asyncio.sleep is due

retryVars == <<max_attempts, backoff_base, exceptions, attempt, call_count,
               sleeps, w_trace, w_pc, w_result>>
collectVars == <<kind, topics, idx, c_pc, all_data, successful_calls,
                 failed_calls, errors, c_result, usage,
                 channel_cache, quota_refused, quota_hit, usage_before, net_calls,
                 top_sites,
                 site_idx>>
orchVars == <<collectors, o_topics, task, finished, results, o_return, o_pc>>
limiterVars == <<rl_limit, rl_window, rl_requests, rl_clock, rl_admitted,
                 rl_wake, rl_pc>>
quotaVars == <<q_limit, q_start, q_rows, q_pending, q_lock, q_mode, q_session,
               q_units, q_pc, q_seen, q_exc, q_added, q_ret>>
scoreVars == <<s_reddit, s_youtube, s_google, s_spike, s_safe, s_strict, s_pc>>
normVars == <<n_fn, n_args, n_out, n_pc>>
pipelineVars == <<p_collections, p_jobs, p_failures, p_proc>>
dayVars == <<d_today, d_table, d_tx, d_proc, d_limiters, d_read, d_spent, d_unsaved>>
trendsVars == <<gt_clock, gt_last, gt_pc, gt_n, gt_idx, gt_collects, gt_wake, gt_start,
                gt_end, gt_outcome>>
updateVars == <<u_trends, u_idx, u_stored, u_degraded, u_pc>>
sharedLimiterVars == <<lc_pc, lc_wake>>
moreVars == <<trendsVars, updateVars, sharedLimiterVars>>
lateVars == <<dayVars, moreVars>>
appVars == <<normVars, pipelineVars, lateVars>>
vars == <<retryVars, collectVars, orchVars, limiterVars, quotaVars, scoreVars,
          appVars>>

----------------------------------------------------------------------------
(* Bounds of the model *)

MaxAttemptsBound == 4
MaxBackoffBase == 3
MaxTopics == 2
MaxSites == 2
NumCategories == 2
MaxHeadroom == 5
NumCollectors == 3
MaxLimit == 2
MaxWindow == 2
MaxGap == 3
MaxOvershoot == 1
MaxAcquires == 4
NumCallers == 2
MaxUnits == 2
MaxStoredUsage == 2
MaxDailyLimit == 4
MaxHistory == 3
MaxManual == 2
MaxDaily == 1
NumDefaultTopics == 1
MaxDays == 2
MaxProcs == 2
NumLimiters == 2
MaxDayUsage == 2
MaxTrendTopics == 2
MaxCollects == 2
MaxTrends == 2
NumTasks == 2

----------------------------------------------------------------------------
(* Python exception classes used by the collectors, with their base class *)

ExcParent ==
    [ Exception              |-> "BaseException",
      RuntimeError           |-> "Exception",
      KeyError               |-> "Exception",
      TypeError              |-> "Exception",
      ValueError             |-> "Exception",
      PRAWException          |-> "Exception",
      HttpError              |-> "Exception",
      QuotaExceededException |-> "Exception",
      ResponseError          |-> "Exception",
      TooManyRequestsError   |-> "ResponseError",
      RequestException       |-> "Exception",
      HTTPError              |-> "RequestException",
      Timeout                |-> "RequestException",
      ConnectionError        |-> "RequestException",
      PrawcoreException      |-> "Exception" ]

ExcTypes == DOMAIN ExcParent

RECURSIVE IsInstance(_, _)
(* isinstance(e, types) for an exception of class e and a tuple of classes *)
IsInstance(e, types) ==
    IF e \in types THEN TRUE
    ELSE IF e \in ExcTypes THEN IsInstance(ExcParent[e], types)
    ELSE FALSE

RECURSIVE Pow(_, _)
Pow(b, n) == IF n = 0 THEN 1 ELSE b * Pow(b, n - 1)

----------------------------------------------------------------------------
(* retry_with_backoff: the wrapper *)

(* what one call of the wrapped function did: returned v, or raised class v;
   raw names the vendor response behind it *)
Out(raises, v, raw) == [raises |-> raises, v |-> v, raw |-> raw]
Returns(v) == Out(FALSE, v, v)
Raises(e) == Out(TRUE, e, e)

Caught_Everything(e) == TRUE

(* `except exceptions as e` *)
Caught(e) == IsInstance(e, exceptions)

(* `if attempt < max_attempts` guarding the sleep *)
ShouldSleep(a) == a < max_attempts

BackoffSeconds_Linear(a) == backoff_base * a

(* `backoff_base ** attempt` *)
BackoffSeconds(a) == Pow(backoff_base, a)

InRange_OneMore(a) == a >= 1 /\ a <= max_attempts + 1

(* `for attempt in range(1, max_attempts + 1)`: is there an iteration a? *)
InRange(a) == a >= 1 /\ a <= max_attempts

(* entering the wrapper: first iteration of the loop, or the fall-through *)
WrapperEnter ==
    /\ attempt' = 1
    /\ call_count' = 0
    /\ sleeps' = <<>>
    /\ w_trace' = <<>>
    /\ IF InRange(1)
       THEN w_pc' = "call" /\ w_result' = "pending"
       ELSE w_pc' = "returned" /\ w_result' = "None"

(* end of one loop iteration: next iteration, or `return None` after the loop *)
LoopNext ==
    IF InRange(attempt + 1)
    THEN /\ attempt' = attempt + 1
         /\ w_pc' = "call"
         /\ w_result' = w_result
    ELSE /\ attempt' = attempt
         /\ w_pc' = "returned"
         /\ w_result' = "None"

(* variant: the value of a successful call is dropped *)
WrapperCall_DropsResult(out) ==
    /\ w_pc = "call"
    /\ call_count' = call_count + 1
    /\ w_trace' = Append(w_trace, out)
    /\ IF ~out.raises
       THEN /\ w_pc' = "returned"
            /\ w_result' = "None"
            /\ UNCHANGED <<attempt, sleeps>>
       ELSE IF Caught(out.v)
       THEN IF ShouldSleep(attempt)
            THEN /\ w_pc' = "sleep"
                 /\ UNCHANGED <<attempt, sleeps, w_result>>
            ELSE /\ LoopNext
                 /\ UNCHANGED sleeps
       ELSE /\ w_pc' = "raised"
            /\ w_result' = out.v
            /\ UNCHANGED <<attempt, sleeps>>

(* one `await func(...)` of the wrapper and the handling of its outcome *)
WrapperCall(out) ==
    /\ w_pc = "call"
    /\ call_count' = call_count + 1
    /\ w_trace' = Append(w_trace, out)
    /\ IF ~out.raises
       THEN /\ w_pc' = "returned"
            /\ w_result' = out.v
            /\ UNCHANGED <<attempt, sleeps>>
       ELSE IF Caught(out.v)
       THEN IF ShouldSleep(attempt)
            THEN /\ w_pc' = "sleep"
                 /\ UNCHANGED <<attempt, sleeps, w_result>>
            ELSE /\ LoopNext
                 /\ UNCHANGED sleeps
       ELSE /\ w_pc' = "raised"
            /\ w_result' = out.v
            /\ UNCHANGED <<attempt, sleeps>>

(* `await asyncio.sleep(backoff_seconds)` returning *)
WrapperSleep ==
    /\ w_pc = "sleep"
    /\ sleeps' = Append(sleeps, BackoffSeconds(attempt))
    /\ LoopNext
    /\ UNCHANGED <<call_count, w_trace>>

----------------------------------------------------------------------------
(* CollectionResult (base.py).  A float success_rate is the exact fraction *)
(* <<numerator, denominator>>, denominator > 0; duration_seconds, a wall-  *)
(* clock reading, is left out.                                             *)

Rate(n, d) == <<n, d>>
RateEq(a, b) == a[1] * b[2] = b[1] * a[2]

(* CollectionResult.__post_init__ *)
PostInit(r) ==
    IF r.total_calls > 0 /\ RateEq(r.success_rate, Rate(0, 1))
    THEN [r EXCEPT !.success_rate = Rate(r.successful_calls, r.total_calls)]
    ELSE r

(* dataclass fields without a default value *)
RequiredFields == {"source", "data", "success_rate"}

(* dataclass fields with a default value *)
FieldDefaults ==
    [total_calls |-> 0, successful_calls |-> 0, failed_calls |-> 0, errors |-> <<>>]

TypeErrorText == "missing 1 required positional argument: 'success_rate'"

(* the generated __init__ called with the arguments kw: a TypeError when a
   required field is not given, else the object after __post_init__ *)
NewCollectionResult(kw) ==
    IF RequiredFields \subseteq DOMAIN kw
    THEN [kind |-> "result", value |-> PostInit(kw @@ FieldDefaults)]
    ELSE [kind |-> "exception", type |-> "TypeError", text |-> TypeErrorText]

(* the constructor call with every field given *)
CollectionResult(source, data, success_rate, total, successful, failed, errs) ==
    NewCollectionResult([ source           |-> source,
                          data             |-> data,
                          success_rate     |-> success_rate,
                          total_calls      |-> total,
                          successful_calls |-> successful,
                          failed_calls     |-> failed,
                          errors           |-> errs ])

----------------------------------------------------------------------------
(* The collectors: decorator arguments and the decorated fetch functions *)

DailyLimit == 10000

(* arguments of @retry_with_backoff on each collector's fetch function *)
DecoratorArgs(k) ==
    CASE k = "reddit" ->
           [max_attempts |-> 3, backoff_base |-> 2, exceptions |-> {"PRAWException"}]
      [] k = "youtube" ->
           [max_attempts |-> 3, backoff_base |-> 2, exceptions |-> {"HttpError"}]
      [] k = "google_trends" ->
           [max_attempts |-> 2, backoff_base |-> 2,
            exceptions |-> {"TooManyRequestsError", "ResponseError"}]
      [] k = "similarweb" ->
           [max_attempts |-> 3, backoff_base |-> 2,
            exceptions |-> {"RequestException", "HTTPError"}]
      [] k = "similarweb_social" ->
           [max_attempts |-> 3, backoff_base |-> 2, exceptions |-> {"Exception"}]

(* what the vendor may answer to one fetch attempt *)
RawOutcomes(k) ==
    CASE k = "reddit" -> {"ok", "empty", "PRAWException", "PrawcoreException"}
      [] k = "google_trends" ->
           {"ok", "empty", "TooManyRequestsError", "ResponseError", "KeyError"}
      [] k = "similarweb" ->
           {"ok", "http_401", "http_404", "http_429", "http_500",
            "Timeout", "ConnectionError", "KeyError"}

HttpStatuses == {"http_401", "http_403", "http_404", "http_429", "http_500"}

(* class of the exception that raise_for_status() or the client raises *)
ExcClass(raw) == IF raw \in HttpStatuses THEN "HTTPError" ELSE raw

(* RedditCollector._fetch_subreddit_posts: PRAWException is logged and
   re-raised, anything else is not handled *)
FetchSubredditPosts(raw) ==
    IF raw = "ok" THEN Out(FALSE, "value", raw)
    ELSE IF raw = "empty" THEN Out(FALSE, "empty_value", raw)
    ELSE Out(TRUE, raw, raw)

(* GoogleTrendsCollector._fetch_topic_interest *)
FetchTopicInterest(raw) ==
    IF raw = "ok" THEN Out(FALSE, "value", raw)
    ELSE IF raw = "empty" THEN Out(FALSE, "None", raw)
    ELSE IF IsInstance(raw, {"TooManyRequestsError"}) THEN Out(TRUE, raw, raw)
    ELSE IF IsInstance(raw, {"ResponseError"}) THEN Out(TRUE, raw, raw)
    ELSE Out(FALSE, "None", raw)

(* SimilarWebCollector._fetch_domain_traffic: HTTPError (401, 429, 404 and
   the rest) and Timeout are logged and re-raised, any other
   RequestException returns None, anything else is not handled *)
FetchDomainTraffic(raw) ==
    IF raw = "ok" THEN Out(FALSE, "value", raw)
    ELSE IF IsInstance(ExcClass(raw), {"HTTPError"}) THEN Out(TRUE, ExcClass(raw), raw)
    ELSE IF IsInstance(ExcClass(raw), {"Timeout"}) THEN Out(TRUE, ExcClass(raw), raw)
    ELSE IF IsInstance(ExcClass(raw), {"RequestException"}) THEN Out(FALSE, "None", raw)
    ELSE Out(TRUE, ExcClass(raw), raw)

(* the decorated fetch function of the three single-request collectors *)
InnerFetch(k, raw) ==
    CASE k = "reddit" -> FetchSubredditPosts(raw)
      [] k = "google_trends" -> FetchTopicInterest(raw)
      [] k = "similarweb" -> FetchDomainTraffic(raw)

----------------------------------------------------------------------------
(* DailyQuotaRateLimiter and the YouTube fetch *)

(* DailyQuotaRateLimiter.can_consume *)
CanConsume(u, units) == u + units <= DailyLimit

(* variant: every call is charged twice *)
IncrementUsage_Double(u, units) == u + 2 * units

(* DailyQuotaRateLimiter.increment_usage: units_used = units_used + units *)
IncrementUsage(u, units) == u + units

(* what the YouTube API may answer to one request *)
YTCallOutcomes == {"ok", "empty", "http_403", "http_500", "KeyError"}

(* `async with self.quota_limiter.consume(units=1): <request>`:
   __aenter__ raises RuntimeError when can_consume fails and the request is
   not sent; __aexit__ increments the usage only when the body did not raise *)
ConsumeCall(u, net, o) ==
    IF ~CanConsume(u, 1)
    THEN [entered |-> FALSE, usage |-> u, net |-> net, exc |-> "RuntimeError"]
    ELSE IF o \in HttpStatuses
    THEN [entered |-> TRUE, usage |-> u, net |-> net + 1, exc |-> "HttpError"]
    ELSE [entered |-> TRUE, usage |-> IncrementUsage(u, 1), net |-> net + 1,
          exc |-> "none"]

(* one of the three requests of _fetch_latest_video together with the
   function's `except HttpError` handler; emptyName names an empty answer *)
VideoStep(u, net, o, emptyName) ==
    LET c == ConsumeCall(u, net, o) IN
    [ usage |-> c.usage, net |-> c.net, refused |-> ~c.entered,
      hit |-> c.entered /\ o = "http_403",
      out |-> IF ~c.entered THEN Out(TRUE, "RuntimeError", "quota_refused")
              ELSE IF c.exc = "HttpError"
                   THEN IF o = "http_403"
                        THEN Out(TRUE, "QuotaExceededException", o)
                        ELSE Out(TRUE, "HttpError", o)
              ELSE IF o = "empty" THEN Out(FALSE, "None", emptyName)
              ELSE IF o = "KeyError" THEN Out(TRUE, "KeyError", o)
              ELSE Out(FALSE, "continue", o) ]

(* YouTubeCollector._get_channel_subscriber_count: a cache hit sends no
   request; every exception, the refused pre-check included, gives None *)
SubscriberCount(u, net, cache, ch, o) ==
    IF ch \in cache
    THEN [usage |-> u, net |-> net, refused |-> FALSE, hit |-> FALSE, cache |-> cache]
    ELSE LET c == ConsumeCall(u, net, o) IN
         [ usage |-> c.usage, net |-> c.net, refused |-> ~c.entered,
           hit |-> c.entered /\ o = "http_403",
           cache |-> IF c.entered /\ c.exc = "none" /\ o = "ok"
                     THEN cache \cup {ch} ELSE cache ]

(* YouTubeCollector._fetch_latest_video: one call of the decorated function *)
FetchLatestVideo(u, net, cache, ch, o1, o2, o3, o4) ==
    LET s1 == VideoStep(u, net, o1, "channel_not_found")
        s2 == VideoStep(s1.usage, s1.net, o2, "no_videos")
        s3 == VideoStep(s2.usage, s2.net, o3, "video_missing")
        s4 == SubscriberCount(s3.usage, s3.net, cache, ch, o4)
        Stop(s) == [out |-> s.out, usage |-> s.usage, net |-> s.net,
                    refused |-> s.refused, hit |-> s.hit, cache |-> cache]
    IN IF s1.out.v # "continue" THEN Stop(s1)
       ELSE IF s2.out.v # "continue" THEN Stop(s2)
       ELSE IF s3.out.v # "continue" THEN Stop(s3)
       ELSE [out |-> Out(FALSE, "value", "ok"), usage |-> s4.usage, net |-> s4.net,
             refused |-> s4.refused, hit |-> s4.hit, cache |-> s4.cache]

----------------------------------------------------------------------------
(* collect(): the loop over the topics *)

Err(msg, item, exc) == [msg |-> msg, item |-> item, exc |-> exc]

CollectorRaise(e, text) ==
    /\ c_pc' = "raised"
    /\ c_result' = [kind |-> "exception", type |-> e, text |-> text]

NextItem ==
    /\ idx' = idx + 1
    /\ c_pc' = IF idx + 1 > Len(topics) THEN "build" ELSE "loop"
    /\ UNCHANGED c_result

(* variant: a new record is put in front of the earlier ones *)
Success_Prepend(payload) ==
    /\ all_data' = payload \o all_data
    /\ successful_calls' = successful_calls + 1
    /\ UNCHANGED <<failed_calls, errors>>

Success(payload) ==
    /\ all_data' = all_data \o payload
    /\ successful_calls' = successful_calls + 1
    /\ UNCHANGED <<failed_calls, errors>>

Failure(n, errs) ==
    /\ failed_calls' = failed_calls + n
    /\ errors' = errors \o errs
    /\ UNCHANGED <<all_data, successful_calls>>

(* the records one successful fetch contributes to data *)
Payload(res) == IF res = "empty_value" THEN <<>> ELSE <<[item |-> topics[idx]]>>

(* RedditCollector.collect, lines 167-197: no try around the fetch *)
HandleReddit(pc, res) ==
    IF pc = "raised"
    THEN /\ CollectorRaise(res, res)
         /\ UNCHANGED <<idx, all_data, successful_calls, failed_calls, errors>>
    ELSE IF res # "None"
    THEN Success(Payload(res)) /\ NextItem
    ELSE Failure(1, <<Err("Failed to collect from r/", topics[idx], "")>>) /\ NextItem

(* variant: on quota exhaustion every topic is counted as failed *)
HandleYouTube_AllFailed(pc, res) ==
    IF pc = "raised" /\ IsInstance(res, {"QuotaExceededException"})
    THEN /\ Failure(Len(topics),
                    <<Err("YouTube quota exceeded, stopped collection", 0, "")>>)
         /\ c_pc' = "build"
         /\ UNCHANGED <<idx, c_result>>
    ELSE IF pc = "raised"
    THEN /\ CollectorRaise(res, res)
         /\ UNCHANGED <<idx, all_data, successful_calls, failed_calls, errors>>
    ELSE IF res # "None"
    THEN Success(Payload(res)) /\ NextItem
    ELSE Failure(1, <<Err("Failed to collect from channel", topics[idx], "")>>) /\ NextItem

(* YouTubeCollector.collect, lines 335-372: only QuotaExceededException is
   caught, and it ends the loop *)
HandleYouTube(pc, res) ==
    IF pc = "raised" /\ IsInstance(res, {"QuotaExceededException"})
    THEN /\ Failure(Len(topics) - successful_calls - failed_calls,
                    <<Err("YouTube quota exceeded, stopped collection", 0, "")>>)
         /\ c_pc' = "build"
         /\ UNCHANGED <<idx, c_result>>
    ELSE IF pc = "raised"
    THEN /\ CollectorRaise(res, res)
         /\ UNCHANGED <<idx, all_data, successful_calls, failed_calls, errors>>
    ELSE IF res # "None"
    THEN Success(Payload(res)) /\ NextItem
    ELSE Failure(1, <<Err("Failed to collect from channel", topics[idx], "")>>) /\ NextItem

(* GoogleTrendsCollector.collect lines 310-354 and SimilarWebCollector.collect
   lines 305-349: `except Exception` around the fetch *)
HandleCaught(pc, res) ==
    IF pc = "raised"
    THEN Failure(1, <<Err("Error collecting", topics[idx], res)>>) /\ NextItem
    ELSE IF res # "None"
    THEN Success(Payload(res)) /\ NextItem
    ELSE Failure(1, <<Err("Failed to collect", topics[idx], "")>>) /\ NextItem

(* the rest of the loop body once the decorated fetch has returned or raised *)
HandleItem(pc, res) ==
    CASE kind = "reddit" -> HandleReddit(pc, res)
      [] kind = "youtube" -> HandleYouTube(pc, res)
      [] kind \in {"google_trends", "similarweb"} -> HandleCaught(pc, res)

(* after a step of the wrapper: still inside it, or back in the loop body *)
AfterWrapper ==
    IF w_pc' \in {"returned", "raised"}
    THEN HandleItem(w_pc', w_result')
    ELSE UNCHANGED <<idx, c_pc, all_data, successful_calls, failed_calls,
                     errors, c_result>>

(* start of collect(): counters, and YouTube's check of today's usage *)
CollectStart ==
    /\ c_pc = "start"
    /\ IF kind = "youtube" /\ usage >= DailyLimit
       THEN /\ c_result' = CollectionResult("youtube", <<>>, Rate(-1, 1), Len(topics), 0,
                               Len(topics), <<Err("YouTube quota exceeded", 0, "")>>)
            /\ c_pc' = "returned"
            /\ idx' = idx
       ELSE /\ idx' = 1
            /\ c_pc' = IF kind # "similarweb_social" /\ Len(topics) = 0
                       THEN "build" ELSE "loop"
            /\ UNCHANGED c_result
    /\ UNCHANGED <<kind, topics, all_data, successful_calls, failed_calls, errors,
                   usage, channel_cache, quota_refused, quota_hit, usage_before, net_calls,
                   top_sites, site_idx>>
    /\ UNCHANGED retryVars

(* head of the loop: the decorated fetch function is called for the item *)
FetchEnter ==
    /\ c_pc = "loop"
    /\ kind # "similarweb_social"
    /\ idx <= Len(topics)
    /\ WrapperEnter
    /\ c_pc' = "fetch"
    /\ usage_before' = usage
    /\ UNCHANGED <<max_attempts, backoff_base, exceptions>>
    /\ UNCHANGED <<kind, topics, idx, all_data, successful_calls, failed_calls,
                   errors, c_result, usage, channel_cache,
                   quota_refused, quota_hit, net_calls, top_sites, site_idx>>

(* one attempt of the Reddit, Google Trends or SimilarWeb fetch *)
FetchCall ==
    /\ c_pc = "fetch"
    /\ kind \in {"reddit", "google_trends", "similarweb"}
    /\ \E raw \in RawOutcomes(kind) : WrapperCall(InnerFetch(kind, raw))
    /\ AfterWrapper
    /\ UNCHANGED <<max_attempts, backoff_base, exceptions>>
    /\ UNCHANGED <<kind, topics, usage, channel_cache, quota_refused, quota_hit, usage_before, net_calls,
                   top_sites, site_idx>>

(* one attempt of the YouTube fetch: up to four API requests *)
YouTubeFetchCall ==
    /\ c_pc = "fetch"
    /\ kind = "youtube"
    /\ \E o1, o2, o3, o4 \in YTCallOutcomes :
          LET f == FetchLatestVideo(usage, net_calls, channel_cache, topics[idx],
                                    o1, o2, o3, o4)
          IN /\ WrapperCall(f.out)
             /\ usage' = f.usage
             /\ net_calls' = f.net
             /\ channel_cache' = f.cache
             /\ quota_refused' = IF f.refused THEN quota_refused \cup {topics[idx]}
                                 ELSE quota_refused
             /\ quota_hit' = IF f.hit THEN quota_hit \cup {topics[idx]} ELSE quota_hit
    /\ AfterWrapper
    /\ UNCHANGED <<max_attempts, backoff_base, exceptions>>
    /\ UNCHANGED <<kind, topics, usage_before, top_sites, site_idx>>

(* the backoff sleep between two attempts ends *)
FetchSleep ==
    /\ c_pc \in {"fetch", "fetch_top", "fetch_site"}
    /\ WrapperSleep
    /\ UNCHANGED <<max_attempts, backoff_base, exceptions>>
    /\ UNCHANGED collectVars

(* after the loop: the CollectionResult is built and returned *)
CollectReturn ==
    /\ c_pc = "build"
    /\ kind # "similarweb_social"
    /\ c_result' = CollectionResult(kind, all_data, Rate(-1, 1), Len(topics),
                                    successful_calls, failed_calls, errors)
    /\ c_pc' = IF c_result'.kind = "result" THEN "returned" ELSE "raised"
    /\ UNCHANGED <<kind, topics, idx, all_data, successful_calls, failed_calls,
                   errors, usage, channel_cache, quota_refused, quota_hit, usage_before,
                   net_calls, top_sites, site_idx>>
    /\ UNCHANGED retryVars

----------------------------------------------------------------------------
(* SimilarWebSocialCollector: top sites per category, referrals per site *)

(* DEFAULT_CATEGORIES, numbered; collect() ignores its topics argument *)
Categories == [c \in 1..NumCategories |-> c]

TopSitesOutcomes == {"ok", "http_404", "http_500", "KeyError"}

ReferralOutcomes ==
    {"ok_trending", "ok_stable", "empty", "http_401", "http_404", "http_500", "KeyError"}

(* _fetch_top_sites: no handler of its own, every exception reaches the
   decorator *)
FetchTopSites(raw) ==
    IF raw = "ok" THEN Out(FALSE, "value", raw) ELSE Out(TRUE, ExcClass(raw), raw)

(* _fetch_social_referrals: HTTPError with status 404 returns None, every
   other exception reaches the decorator *)
FetchSocialReferrals(raw) ==
    IF raw = "ok_trending" THEN Out(FALSE, "value", raw)
    ELSE IF raw = "ok_stable" THEN Out(FALSE, "stable_value", raw)
    ELSE IF raw = "empty" THEN Out(FALSE, "empty_value", raw)
    ELSE IF IsInstance(ExcClass(raw), {"HTTPError"}) /\ raw = "http_404"
    THEN Out(FALSE, "None", raw)
    ELSE Out(TRUE, ExcClass(raw), raw)

(* identifier of the site at position s of category c *)
SiteId(c, s) == c * 10 + s

NextCategory ==
    /\ idx' = idx + 1
    /\ c_pc' = IF idx + 1 > Len(Categories) THEN "build" ELSE "loop"

NextSite ==
    IF site_idx + 1 > top_sites
    THEN NextCategory /\ UNCHANGED site_idx
    ELSE site_idx' = site_idx + 1 /\ c_pc' = "site_loop" /\ UNCHANGED idx

(* head of the category loop: _fetch_top_sites is called *)
SocialTopSitesEnter ==
    /\ c_pc = "loop"
    /\ kind = "similarweb_social"
    /\ idx <= Len(Categories)
    /\ WrapperEnter
    /\ c_pc' = "fetch_top"
    /\ UNCHANGED <<max_attempts, backoff_base, exceptions>>
    /\ UNCHANGED <<kind, topics, idx, all_data, successful_calls, failed_calls,
                   errors, c_result, usage, channel_cache,
                   quota_refused, quota_hit, usage_before, net_calls, top_sites, site_idx>>

(* one attempt of _fetch_top_sites; once the wrapper is done, lines 336-345
   and the outer handler of lines 404-417: a None from the exhausted retry
   is counted as a success before iterating over it raises TypeError *)
SocialTopSitesCall ==
    /\ c_pc = "fetch_top"
    /\ \E raw \in TopSitesOutcomes : WrapperCall(FetchTopSites(raw))
    /\ IF w_pc' \notin {"returned", "raised"}
       THEN UNCHANGED <<idx, c_pc, successful_calls, failed_calls, errors,
                        top_sites, site_idx>>
       ELSE /\ IF w_pc' = "raised"
               THEN /\ failed_calls' = failed_calls + 1
                    /\ errors' = Append(errors,
                           Err("Failed to fetch top sites for category", idx, w_result'))
                    /\ NextCategory
                    /\ UNCHANGED <<successful_calls, top_sites, site_idx>>
               ELSE IF w_result' = "None"
               THEN /\ successful_calls' = successful_calls + 1
                    /\ failed_calls' = failed_calls + 1
                    /\ errors' = Append(errors,
                           Err("Failed to fetch top sites for category", idx, "TypeError"))
                    /\ NextCategory
                    /\ UNCHANGED <<top_sites, site_idx>>
               ELSE /\ successful_calls' = successful_calls + 1
                    /\ \E n \in 0..MaxSites :
                          /\ top_sites' = n
                          /\ site_idx' = 1
                          /\ IF n = 0 THEN NextCategory
                             ELSE c_pc' = "site_loop" /\ UNCHANGED idx
                    /\ UNCHANGED <<failed_calls, errors>>
    /\ UNCHANGED <<max_attempts, backoff_base, exceptions>>
    /\ UNCHANGED <<kind, topics, all_data, c_result, usage, channel_cache,
                   quota_refused, quota_hit, usage_before, net_calls>>

(* head of the site loop: _fetch_social_referrals is called *)
SocialSiteEnter ==
    /\ c_pc = "site_loop"
    /\ WrapperEnter
    /\ c_pc' = "fetch_site"
    /\ UNCHANGED <<max_attempts, backoff_base, exceptions>>
    /\ UNCHANGED <<kind, topics, idx, all_data, successful_calls, failed_calls,
                   errors, c_result, usage, channel_cache,
                   quota_refused, quota_hit, usage_before, net_calls, top_sites, site_idx>>

(* one attempt of _fetch_social_referrals; once the wrapper is done, lines
   348-402 *)
SocialReferralsCall ==
    /\ c_pc = "fetch_site"
    /\ \E raw \in ReferralOutcomes : WrapperCall(FetchSocialReferrals(raw))
    /\ IF w_pc' \notin {"returned", "raised"}
       THEN UNCHANGED <<idx, c_pc, all_data, successful_calls, failed_calls,
                        errors, site_idx>>
       ELSE /\ IF w_pc' = "raised"
               THEN /\ failed_calls' = failed_calls + 1
                    /\ errors' = Append(errors,
                           Err("Failed to collect social data for", SiteId(idx, site_idx),
                               w_result'))
                    /\ UNCHANGED <<all_data, successful_calls>>
               ELSE IF w_result' \in {"None", "empty_value"}
               THEN /\ failed_calls' = failed_calls + 1
                    /\ UNCHANGED <<all_data, successful_calls, errors>>
               ELSE /\ successful_calls' = successful_calls + 1
                    /\ all_data' = IF w_result' = "value"
                                   THEN Append(all_data, [item |-> SiteId(idx, site_idx)])
                                   ELSE all_data
                    /\ UNCHANGED <<failed_calls, errors>>
            /\ NextSite
    /\ UNCHANGED <<max_attempts, backoff_base, exceptions>>
    /\ UNCHANGED <<kind, topics, c_result, usage, channel_cache, quota_refused, quota_hit, usage_before,
                   net_calls, top_sites>>

(* lines 419-443: the CollectionResult is built without success_rate *)
SocialReturn ==
    /\ c_pc = "build"
    /\ kind = "similarweb_social"
    /\ c_result' = NewCollectionResult(
                       [ source           |-> "similarweb_social",
                         data             |-> all_data,
                         total_calls      |-> successful_calls + failed_calls,
                         successful_calls |-> successful_calls,
                         failed_calls     |-> failed_calls,
                         errors           |-> errors ])
    /\ c_pc' = IF c_result'.kind = "result" THEN "returned" ELSE "raised"
    /\ UNCHANGED <<kind, topics, idx, all_data, successful_calls, failed_calls,
                   errors, usage, channel_cache, quota_refused, quota_hit, usage_before,
                   net_calls, top_sites, site_idx>>
    /\ UNCHANGED retryVars

----------------------------------------------------------------------------
(* CollectionOrchestrator.collect_all *)

(* DataCollector.name of the five collector classes *)
CollectorNames ==
    <<"reddit", "youtube", "google_trends", "similarweb_social", "similarweb">>

(* exceptions a collect() may end with, as (class, str(exception)) *)
CrashExceptions ==
    { [type |-> "RuntimeError", text |-> "connection lost"],
      [type |-> "TypeError", text |-> TypeErrorText] }

(* a result as the collectors build it: s successes out of n topics *)
CollectorResult(name, n, s) ==
    CollectionResult(name, [j \in 1..s |-> [item |-> j]], Rate(-1, 1), n, s, n - s,
                     [j \in 1..(n - s) |-> Err("Failed to collect", s + j, "")])

(* what a collect() task may end with *)
TaskOutcomes(name, n) ==
    { CollectorResult(name, n, s) : s \in 0..n }
        \cup { [kind |-> "exception", type |-> e.type, text |-> e.text] : e \in CrashExceptions }

Running == [kind |-> "running"]

AllTasksDone == \A i \in 1..Len(task) : task[i].kind # "running"

(* asyncio.gather(tasks, return_exceptions=True): the i-th element is the
   outcome of the i-th task, whatever the order of completion *)
ResultsOrExceptions(i) == task[i]

(* the result built for a collector whose collect() raised (lines 112-120) *)
CrashedResult(name, exc) ==
    CollectionResult(name, <<>>, Rate(-1, 1), Len(o_topics), 0, Len(o_topics),
                     <<exc.text>>).value

(* results[name] = value *)
DictSet(d, name, value) ==
    [k \in DOMAIN d \cup {name} |-> IF k = name THEN value ELSE d[k]]

(* body of `for collector, result_or_exception in zip(...)` (lines 98-142) *)
ProcessOne(d, name, roe) ==
    IF roe.kind = "exception" THEN DictSet(d, name, CrashedResult(name, roe))
    ELSE IF roe.kind = "result" THEN DictSet(d, name, roe.value)
    ELSE d

RECURSIVE ProcessResults(_, _)
(* the loop of lines 98-142 from position i on *)
ProcessResults(i, d) ==
    IF i > Len(collectors) THEN d
    ELSE ProcessResults(i + 1, ProcessOne(d, collectors[i], ResultsOrExceptions(i)))

(* sources whose call count is read for the log record (lines 149-151) *)
MetricSources == <<"reddit", "youtube", "google_trends">>

(* the default argument of results.get(name, CollectionResult(name, [])),
   evaluated before get() is called whether or not the key is present *)
GetDefault(name) == NewCollectionResult([source |-> name, data |-> <<>>])

(* lines 149-151: the first default argument that cannot be built raises *)
MetricsOutcome ==
    IF \E j \in 1..Len(MetricSources) : GetDefault(MetricSources[j]).kind = "exception"
    THEN GetDefault(MetricSources[1])
    ELSE [kind |-> "ok"]

(* one collector's collect() coroutine ends *)
TaskFinish(i) ==
    /\ o_pc = "gather"
    /\ task[i].kind = "running"
    /\ \E out \in TaskOutcomes(collectors[i], Len(o_topics)) :
          task' = [task EXCEPT ![i] = out]
    /\ finished' = Append(finished, i)
    /\ UNCHANGED <<collectors, o_topics, results, o_return, o_pc>>

(* gather() returns once every task is done; lines 93-167 run without
   suspension: the loop fills `results`, the metrics are computed, and
   `results` is returned unless an exception was raised on the way *)
CollectAllReturn ==
    /\ o_pc = "gather"
    /\ AllTasksDone
    /\ results' = ProcessResults(1, <<>>)
    /\ IF MetricsOutcome.kind = "exception"
       THEN /\ o_pc' = "raised"
            /\ o_return' = MetricsOutcome
       ELSE /\ o_pc' = "returned"
            /\ o_return' = [kind |-> "result", value |-> results']
    /\ UNCHANGED <<collectors, o_topics, task, finished>>

----------------------------------------------------------------------------
(* RequestsPerMinuteRateLimiter.acquire; timestamps are clock ticks *)

RECURSIVE DropOlder(_, _)
(* `while self.requests and self.requests[0] < cutoff: popleft()` *)
DropOlder(q, cutoff) ==
    IF Len(q) > 0 /\ q[1] < cutoff THEN DropOlder(Tail(q), cutoff) ELSE q

(* variant: the call already waits with one free slot left *)
AtLimit_OneEarly(q) == Len(q) > 0 /\ Len(q) >= rl_limit - 1

(* `if len(self.requests) >= self.limit` *)
AtLimit(q) == Len(q) >= rl_limit

(* wait_seconds = (oldest_request + window) - now *)
WaitSeconds(q, now) == (q[1] + rl_window) - now

(* `self.requests.append(datetime.now(timezone.utc))` at clock reading t *)
Record(q, t) ==
    /\ rl_requests' = Append(q, t)
    /\ rl_admitted' = Append(rl_admitted, t)
    /\ rl_clock' = t

(* acquire() up to its only suspension point: the clock is read, expired
   timestamps are dropped, and either the call goes to sleep or the clock is
   read again and the timestamp recorded *)
AcquireBegin ==
    /\ rl_pc = "ready"
    /\ Len(rl_admitted) < MaxAcquires
    /\ \E gap \in 0..MaxGap :
          LET now == rl_clock + gap
              q == DropOlder(rl_requests, now - rl_window)
          IN IF AtLimit(q) /\ WaitSeconds(q, now) > 0
             THEN /\ rl_pc' = "sleeping"
                  /\ rl_wake' = now + WaitSeconds(q, now)
                  /\ rl_requests' = q
                  /\ rl_clock' = now
                  /\ UNCHANGED rl_admitted
             ELSE /\ \E lag \in 0..MaxOvershoot : Record(q, now + lag)
                  /\ UNCHANGED <<rl_pc, rl_wake>>
    /\ UNCHANGED <<rl_limit, rl_window>>

(* asyncio.sleep(wait_seconds) ends, not before the delay has passed, and
   the timestamp read after it is recorded; nothing is dropped again *)
AcquireWake ==
    /\ rl_pc = "sleeping"
    /\ \E over \in 0..MaxOvershoot : Record(rl_requests, rl_wake + over)
    /\ rl_pc' = "ready"
    /\ UNCHANGED <<rl_limit, rl_window, rl_wake>>

----------------------------------------------------------------------------
(* DailyQuotaRateLimiter: increment_usage, can_consume and the consume()   *)
(* context, over the rows of api_quota_usage for one (api_name, date) key  *)

Callers == 1..NumCallers
Sessions == 1..NumCallers

(* the rows of the key as a statement of session s sees them: its own
   uncommitted changes, else what is committed *)
View(s) == IF q_pending[s] = "none" THEN q_rows ELSE q_pending[s]

(* get_usage_today: scalar_one_or_none(), 0 when there is no row *)
GetUsageToday(s) == IF View(s) = <<>> THEN 0 ELSE View(s)[1]

(* INSERT ... ON CONFLICT (api_name, date) DO UPDATE
   SET units_used = units_used + units *)
Upsert(rows, units) ==
    IF rows = <<>> THEN <<units>> ELSE [rows EXCEPT ![1] = @ + units]

(* variant: no row lock, statements of other sessions write at once *)
CanWrite_NoRowLock(s) == TRUE

(* a statement that writes the key's row waits while the transaction of
   another session holds an uncommitted write of it *)
CanWrite(s) == q_lock \in {0, s}

(* can_consume *)
QuotaCanConsume(s, units) == GetUsageToday(s) + units <= q_limit

(* variant: the usage is incremented whether or not the body raised *)
ExitIncrements_Always(exc) == TRUE

(* ConsumeContext.__aexit__: `if exc_type is None` *)
ExitIncrements(exc) == exc = "none"

(* ConsumeContext.__aenter__: the pre-check; refused raises RuntimeError *)
ConsumeEnter(p) ==
    /\ q_mode[p] = "consume"
    /\ q_pc[p] = "enter"
    /\ q_seen' = [q_seen EXCEPT ![p] = GetUsageToday(q_session[p])]
    /\ q_pc' = [q_pc EXCEPT ![p] =
                  IF QuotaCanConsume(q_session[p], q_units[p]) THEN "body" ELSE "refused"]
    /\ UNCHANGED <<q_limit, q_start, q_rows, q_pending, q_lock, q_mode, q_session,
                   q_units, q_exc, q_added, q_ret>>

(* the body of the `async with` block finishes or raises, and __aexit__
   starts: it calls increment_usage or lets the exception go on *)
ConsumeBody(p) ==
    /\ q_pc[p] = "body"
    /\ \E exc \in {"none", "error"} :
          /\ q_exc' = [q_exc EXCEPT ![p] = exc]
          /\ q_pc' = [q_pc EXCEPT ![p] =
                        IF ExitIncrements(exc) THEN "call" ELSE "raised"]
    /\ UNCHANGED <<q_limit, q_start, q_rows, q_pending, q_lock, q_mode, q_session,
                   q_units, q_seen, q_added, q_ret>>

(* increment_usage, `await self.db_session.execute(stmt)` *)
IncrementExecute(p) ==
    /\ q_pc[p] = "call"
    /\ CanWrite(q_session[p])
    /\ LET s == q_session[p]
           before == GetUsageToday(s)
           rows == Upsert(View(s), q_units[p])
       IN /\ q_pending' = [q_pending EXCEPT ![s] = rows]
          /\ q_added' = [q_added EXCEPT ![p] = rows[1] - before]
    /\ q_lock' = q_session[p]
    /\ q_pc' = [q_pc EXCEPT ![p] = "upserted"]
    /\ UNCHANGED <<q_limit, q_start, q_rows, q_mode, q_session, q_units, q_seen,
                   q_exc, q_ret>>

(* increment_usage, `new_total = await self.get_usage_today()` and return;
   __aexit__ then re-raises the body's exception if there was one *)
IncrementReturn(p) ==
    /\ q_pc[p] = "upserted"
    /\ q_ret' = [q_ret EXCEPT ![p] = GetUsageToday(q_session[p])]
    /\ q_pc' = [q_pc EXCEPT ![p] =
                  IF q_exc[p] \in {"none", "unset"} THEN "returned" ELSE "raised"]
    /\ UNCHANGED <<q_limit, q_start, q_rows, q_pending, q_lock, q_mode, q_session,
                   q_units, q_seen, q_exc, q_added>>

(* the owner of session s commits: increment_usage itself never does *)
SessionCommit(s) ==
    /\ q_pending[s] # "none"
    /\ q_rows' = q_pending[s]
    /\ q_pending' = [q_pending EXCEPT ![s] = "none"]
    /\ q_lock' = IF q_lock = s THEN 0 ELSE q_lock
    /\ UNCHANGED <<q_limit, q_start, q_mode, q_session, q_units, q_pc, q_seen,
                   q_exc, q_added, q_ret>>

----------------------------------------------------------------------------
(* scoring/momentum.py: calculate_momentum_score and                       *)
(* calculate_momentum_score_safe. Scores and weights are exact fractions   *)
(* <<numerator, denominator>>; a result's score is kept in hundredths.     *)

(* scoring/constants.py, in hundredths *)
REDDIT_WEIGHT == 33
YOUTUBE_WEIGHT == 33
GOOGLE_TRENDS_WEIGHT == 34
SIGNAL_PRESENCE_THRESHOLD == 50

(* 1.5 *)
SIMILARWEB_BONUS_MULTIPLIER == <<3, 2>>

(* Python's None for an Optional[float] argument; scores are never negative *)
None == -1

Weight(w) == <<w, 100>>

RECURSIVE GCD(_, _)
GCD(a, b) == IF b = 0 THEN a ELSE GCD(b, a % b)

(* a fraction in lowest terms, to keep the numbers small *)
Lowest(x) == LET g == GCD(x[1], x[2]) IN IF g = 0 THEN x ELSE <<x[1] \div g, x[2] \div g>>

FracAdd(a, b) == Lowest(<<a[1] * b[2] + b[1] * a[2], a[2] * b[2]>>)
FracMul(a, b) == Lowest(<<a[1] * b[1], a[2] * b[2]>>)
FracDiv(a, b) == Lowest(<<a[1] * b[2], a[2] * b[1]>>)
FracEq(a, b) == a[1] * b[2] = b[1] * a[2]

(* round(x, 2) for x >= 0, in hundredths, a tie going to the even digit *)
Round2(x) ==
    LET n == x[1] * 100
        q == n \div x[2]
        r == n % x[2]
    IN IF 2 * r < x[2] THEN q
       ELSE IF 2 * r > x[2] THEN q + 1
       ELSE IF q % 2 = 0 THEN q ELSE q + 1

(* variant: the multiplier is never applied *)
ApplyBonus_NoBonus(base, spike) == base

(* lines 77-80 and 167-170 *)
ApplyBonus(base, spike) ==
    IF spike THEN FracMul(base, SIMILARWEB_BONUS_MULTIPLIER) ELSE base

(* Python's True counts as 1 in sum([...]) *)
Count(b) == IF b THEN 1 ELSE 0

(* variant: a signal equal to the threshold counts as present *)
SignalsPresent_AtThreshold(r, y, g, spike) ==
    Count(r >= SIGNAL_PRESENCE_THRESHOLD) + Count(y >= SIGNAL_PRESENCE_THRESHOLD)
        + Count(g >= SIGNAL_PRESENCE_THRESHOLD) + Count(spike)

(* lines 83-88 *)
SignalsPresent(r, y, g, spike) ==
    Count(r > SIGNAL_PRESENCE_THRESHOLD) + Count(y > SIGNAL_PRESENCE_THRESHOLD)
        + Count(g > SIGNAL_PRESENCE_THRESHOLD) + Count(spike)

(* lines 90-97 *)
Confidence(n) ==
    IF n >= 4 THEN "high"
    ELSE IF n >= 2 THEN "medium"
    ELSE IF n >= 1 THEN "low"
    ELSE "unknown"

MomentumResult(score, confidence) == [score |-> score, confidence |-> confidence]

(* calculate_momentum_score *)
calculate_momentum_score(r, y, g, spike) ==
    LET base_score == FracAdd(FracAdd(FracMul(<<r, 1>>, Weight(REDDIT_WEIGHT)),
                                      FracMul(<<y, 1>>, Weight(YOUTUBE_WEIGHT))),
                              FracMul(<<g, 1>>, Weight(GOOGLE_TRENDS_WEIGHT)))
        final_score == ApplyBonus(base_score, spike)
    IN MomentumResult(Round2(final_score),
                      Confidence(SignalsPresent(r, y, g, spike)))

(* lines 148-154: the (score, weight) pairs of the platforms that are not None *)
AvailablePlatforms(r, y, g) ==
    (IF r # None THEN <<<<r, REDDIT_WEIGHT>>>> ELSE <<>>)
        \o (IF y # None THEN <<<<y, YOUTUBE_WEIGHT>>>> ELSE <<>>)
        \o (IF g # None THEN <<<<g, GOOGLE_TRENDS_WEIGHT>>>> ELSE <<>>)

RECURSIVE SumWeights(_)
SumWeights(avail) ==
    IF avail = <<>> THEN 0 ELSE avail[1][2] + SumWeights(Tail(avail))

(* variant: the weights of absent platforms stay in the total *)
TotalWeight_AllPlatforms(avail) ==
    Weight(REDDIT_WEIGHT + YOUTUBE_WEIGHT + GOOGLE_TRENDS_WEIGHT)

(* line 161 *)
TotalWeight(avail) == Weight(SumWeights(avail))

RECURSIVE SumRenormalized(_, _)
(* line 164: sum(score * (weight / total_weight) ...) *)
SumRenormalized(avail, total) ==
    IF avail = <<>> THEN <<0, 1>>
    ELSE FracAdd(FracMul(<<avail[1][1], 1>>, FracDiv(Weight(avail[1][2]), total)),
                 SumRenormalized(Tail(avail), total))

(* lines 173-178 *)
SignalsPresentSafe(r, y, g, spike) ==
    Count(r # None /\ r > SIGNAL_PRESENCE_THRESHOLD)
        + Count(y # None /\ y > SIGNAL_PRESENCE_THRESHOLD)
        + Count(g # None /\ g > SIGNAL_PRESENCE_THRESHOLD)
        + Count(spike)

(* variant: the thresholds of calculate_momentum_score are used *)
ConfidenceSafe_Strict(n) ==
    IF n >= 4 THEN "high"
    ELSE IF n >= 2 THEN "medium"
    ELSE IF n >= 1 THEN "low"
    ELSE "unknown"

(* lines 181-188 *)
ConfidenceSafe(n) ==
    IF n >= 3 THEN "high"
    ELSE IF n >= 2 THEN "medium"
    ELSE IF n >= 1 THEN "low"
    ELSE "unknown"

(* variant: the traffic spike alone counts as a signal *)
NoPlatformResult_SpikeCounts(spike) ==
    MomentumResult(0, IF spike THEN "low" ELSE "unknown")

(* line 158 *)
NoPlatformResult(spike) == MomentumResult(0, "unknown")

(* calculate_momentum_score_safe *)
calculate_momentum_score_safe(r, y, g, spike) ==
    LET available_platforms == AvailablePlatforms(r, y, g) IN
    IF Len(available_platforms) = 0 THEN NoPlatformResult(spike)
    ELSE LET base_score == SumRenormalized(available_platforms,
                                           TotalWeight(available_platforms))
             final_score == ApplyBonus(base_score, spike)
         IN MomentumResult(Round2(final_score),
                           ConfidenceSafe(SignalsPresentSafe(r, y, g, spike)))

Unscored == MomentumResult(0, "unset")

(* both functions are called on the stored inputs; the strict one takes
   floats only, so it is called when no input is None *)
Score ==
    /\ s_pc = "input"
    /\ s_safe' = calculate_momentum_score_safe(s_reddit, s_youtube, s_google, s_spike)
    /\ s_strict' = IF None \in {s_reddit, s_youtube, s_google} THEN Unscored
                   ELSE calculate_momentum_score(s_reddit, s_youtube, s_google, s_spike)
    /\ s_pc' = "scored"
    /\ UNCHANGED <<s_reddit, s_youtube, s_google, s_spike>>

----------------------------------------------------------------------------
(* scoring/normalizer.py: normalize_reddit_score,                          *)
(* normalize_youtube_traction and calculate_google_trends_spike.           *)
(*                                                                         *)
(* A number m * 10^e is the pair <<m, e>>. It stands for a Python int      *)
(* (unbounded, e >= 0) or for the value of a finite float. A float is a    *)
(* record whose k is "fin", "inf" or "nan"; k = "exc" stands for an        *)
(* expression whose evaluation raised OverflowError.                       *)

(* scoring/constants.py *)
MAX_REDDIT_VELOCITY == 10000
MAX_YOUTUBE_TRACTION == 50000
GOOGLE_TRENDS_Z_SCORE_RANGE == 6

RECURSIVE Normal(_)
(* the same number with no trailing zero in the mantissa *)
Normal(x) ==
    IF x[1] = 0 THEN <<0, 0>>
    ELSE IF x[1] % 10 = 0 THEN Normal(<<x[1] \div 10, x[2] + 1>>)
    ELSE x

ToDec(n) == Normal(<<n, 0>>)

RECURSIVE Digits(_)
Digits(m) == IF m < 10 THEN 1 ELSE 1 + Digits(m \div 10)

(* for x > 0: 10^(Magnitude(x) - 1) <= x < 10^Magnitude(x) *)
Magnitude(x) == Digits(x[1]) + x[2]

PosLess(a, b) ==
    IF Magnitude(a) # Magnitude(b) THEN Magnitude(a) < Magnitude(b)
    ELSE LET e == IF a[2] < b[2] THEN a[2] ELSE b[2]
         IN a[1] * Pow(10, a[2] - e) < b[1] * Pow(10, b[2] - e)

(* a < b *)
DecLess(a, b) ==
    IF a[1] <= 0 /\ b[1] <= 0
    THEN IF a[1] = 0 \/ b[1] = 0 THEN a[1] < b[1]
         ELSE PosLess(<<-b[1], b[2]>>, <<-a[1], a[2]>>)
    ELSE IF a[1] <= 0 THEN TRUE
    ELSE IF b[1] <= 0 THEN FALSE
    ELSE PosLess(a, b)

(* max(a, b) and min(a, b) of Python: the first argument unless the second
   one is strictly larger (smaller) *)
PyMax(a, b) == IF DecLess(a, b) THEN b ELSE a
PyMin(a, b) == IF DecLess(b, a) THEN b ELSE a

(* x > sys.float_info.max = 1.7976931348623157e308, for x > 0 with a
   mantissa of at most five digits *)
ExceedsFloat(x) ==
    LET n == Normal(x) IN
    IF Magnitude(n) # 309 THEN Magnitude(n) > 309
    ELSE n[1] * Pow(10, 5 - Digits(n[1])) > 17976

Fin(x) == [k |-> "fin", v |-> Normal(x)]
Inf == [k |-> "inf", v |-> <<0, 0>>]
NaN == [k |-> "nan", v |-> <<0, 0>>]
Overflow == [k |-> "exc", v |-> <<0, 0>>]

(* the result of a float operation whose exact value is x >= 0: IEEE
   arithmetic gives inf beyond the largest float and raises nothing *)
Rounded(x) == IF x[1] > 0 /\ ExceedsFloat(x) THEN Inf ELSE Fin(x)

(* an int operand of `/`: "OverflowError: int too large to convert to float" *)
FloatOfInt(x) == IF x[1] > 0 /\ ExceedsFloat(x) THEN Overflow ELSE Fin(x)

(* 1/m as an exact decimal, for the divisors the model uses *)
Reciprocal(m) ==
    CASE m = 1 -> <<1, 0>>
      [] m = 2 -> <<5, -1>>
      [] m = 5 -> <<2, -1>>

(* a * b for a, b >= 0 *)
FMul(a, b) ==
    IF a.k = "exc" \/ b.k = "exc" THEN Overflow
    ELSE IF a.k = "nan" \/ b.k = "nan" THEN NaN
    ELSE IF a.k = "inf" THEN (IF b.k = "fin" /\ b.v[1] = 0 THEN NaN ELSE Inf)
    ELSE IF b.k = "inf" THEN (IF a.v[1] = 0 THEN NaN ELSE Inf)
    ELSE Rounded(<<a.v[1] * b.v[1], a.v[2] + b.v[2]>>)

(* a / d for a float a >= 0 and a finite d > 0 *)
FDiv(a, d) ==
    LET n == Normal(d) IN FMul(a, Fin(<<Reciprocal(n[1])[1], Reciprocal(n[1])[2] - n[2]>>))

(* int / int: the quotient is rounded once; "OverflowError: integer
   division result too large for a float" *)
IntTrueDiv(a, d) ==
    LET n == Normal(d)
        q == <<a[1] * Reciprocal(n[1])[1], a[2] + Reciprocal(n[1])[2] - n[2]>>
    IN IF q[1] > 0 /\ ExceedsFloat(q) THEN Overflow ELSE Fin(q)

(* math.log10 of an int >= 1; the sizes of the model are powers of ten,
   whose logarithm is the exponent *)
Log10(x) == Fin(<<Normal(x)[2], 0>>)

(* min(100.0, x): x only when x < 100.0 holds, which it never does for nan *)
Min100(x) ==
    IF x.k = "exc" THEN Overflow
    ELSE IF x.k = "fin" /\ DecLess(x.v, <<1, 2>>) THEN x
    ELSE Fin(<<1, 2>>)

(* round(x, 2) in hundredths for a finite 0 <= x <= 100, a tie going to the
   even digit *)
RoundHundredths(x) ==
    IF x[1] = 0 THEN 0
    ELSE IF x[2] >= -2 THEN x[1] * Pow(10, x[2] + 2)
    ELSE IF Digits(x[1]) + x[2] + 2 < 0 THEN 0
    ELSE LET d == Pow(10, -(x[2] + 2))
             q == x[1] \div d
             r == x[1] % d
         IN IF 2 * r < d THEN q
            ELSE IF 2 * r > d THEN q + 1
            ELSE IF q % 2 = 0 THEN q ELSE q + 1

(* what a call does: it returns a float, kept in hundredths, or raises *)
FloatResult(h) == [kind |-> "returned", value |-> h, exc |-> "none"]
Exception(name) == [kind |-> "raised", value |-> 0, exc |-> name]
NotCalled == [kind |-> "unset", value |-> 0, exc |-> "none"]

(* lines 77-79 and 149-151 *)
Normalized(raw_score, max_expected) ==
    LET normalized == Min100(FMul(FDiv(raw_score, ToDec(max_expected)), Fin(<<1, 2>>)))
    IN IF normalized.k = "exc" THEN Exception("OverflowError")
       ELSE FloatResult(RoundHundredths(normalized.v))

(* normalize_reddit_score, lines 62-79 *)
normalize_reddit_score(score, hours_since_post, subreddit_size) ==
    LET safe_hours == PyMax(hours_since_post, <<1, 0>>)
        safe_subreddit_size == PyMax(subreddit_size, <<1, 0>>)
        safe_score == PyMax(score, <<0, 0>>)
        velocity == FDiv(FloatOfInt(safe_score), safe_hours)
        authority_weight == Log10(safe_subreddit_size)
        raw_score == FMul(velocity, authority_weight)
    IN Normalized(raw_score, MAX_REDDIT_VELOCITY)

(* normalize_youtube_traction, lines 130-151 *)
normalize_youtube_traction(views, hours_since_publish, likes, channel_subs) ==
    LET safe_hours == PyMax(hours_since_publish, <<1, 0>>)
        safe_views == PyMax(views, <<1, 0>>)
        safe_likes == PyMax(likes, <<0, 0>>)
        safe_channel_subs == PyMax(channel_subs, <<1, 0>>)
        velocity == FDiv(FloatOfInt(safe_views), safe_hours)
        engagement_rate == IntTrueDiv(safe_likes, safe_views)
        authority_weight == Log10(safe_channel_subs)
        raw_score == FMul(FMul(velocity, engagement_rate), authority_weight)
    IN Normalized(raw_score, MAX_YOUTUBE_TRACTION)

(* an int beyond the range of a float *)
Huge(x) == x[1] > 0 /\ ExceedsFloat(x)

IntOf(x) == x[1] * Pow(10, x[2])

RECURSIVE SumInts(_)
SumInts(h) == IF h = <<>> THEN 0 ELSE IntOf(h[1]) + SumInts(Tail(h))

RECURSIVE SumSquares(_, _, _)
(* sum of (n * x - total)^2 over the history: n^2 times the sum of the
   squared deviations from the mean *)
SumSquares(h, n, total) ==
    IF h = <<>> THEN 0
    ELSE (n * IntOf(h[1]) - total) * (n * IntOf(h[1]) - total)
             + SumSquares(Tail(h), n, total)

RECURSIVE SqrtBetween(_, _, _)
(* the largest r in lo..hi with r * r <= n *)
SqrtBetween(n, lo, hi) ==
    IF lo = hi THEN lo
    ELSE LET mid == (lo + hi + 1) \div 2
         IN IF mid * mid <= n THEN SqrtBetween(n, mid, hi)
            ELSE SqrtBetween(n, lo, mid - 1)

(* the square root of a fraction, to a hundredth *)
Sqrt(x) == <<SqrtBetween((x[1] * 10000) \div x[2], 0, 40000), 100>>

(* statistics.stdev(seven_day_history) ** 2: the sample variance *)
Variance(h) ==
    LET n == Len(h) IN Lowest(<<SumSquares(h, n, SumInts(h)), n * n * (n - 1)>>)

AllEqual(h) == \A i \in 1..Len(h) : h[i] = h[1]

(* line 205 and line 231: float(min(100, max(0, current_interest))) *)
ClampInterest(current_interest) ==
    FloatResult(100 * IntOf(PyMin(<<1, 2>>, PyMax(<<0, 0>>, current_interest))))

(* lines 217-227 for a history of ordinary values with stddev > 0 *)
ZScoreNormalized(current_interest, h) ==
    LET n == Len(h)
        stddev == Sqrt(Variance(h))
        z_score == Lowest(<<(n * IntOf(current_interest) - SumInts(h)) * stddev[2],
                            n * stddev[1]>>)
        normalized == FracMul(FracDiv(FracAdd(z_score, <<3, 1>>),
                                      <<GOOGLE_TRENDS_Z_SCORE_RANGE, 1>>), <<100, 1>>)
        clamped == IF normalized[1] < 0 THEN <<0, 1>>
                   ELSE IF normalized[1] > 100 * normalized[2] THEN <<100, 1>>
                   ELSE normalized
    IN FloatResult(Round2(clamped))

(* calculate_google_trends_spike, lines 202-231. With a value beyond the
   float range in the history, statistics.mean and statistics.stdev work on
   exact fractions and raise OverflowError when the mean or the deviation is
   converted to a float, unless all values are equal (stdev is 0.0); with an
   ordinary history, line 217 converts current_interest - mean to a float.
   OverflowError is not a StatisticsError, so line 229 does not catch it. *)
calculate_google_trends_spike(current_interest, seven_day_history) ==
    IF Len(seven_day_history) < 2 THEN ClampInterest(current_interest)
    ELSE IF AllEqual(seven_day_history) THEN FloatResult(5000)
    ELSE IF \E i \in 1..Len(seven_day_history) : Huge(seven_day_history[i])
    THEN Exception("OverflowError")
    ELSE IF Huge(current_interest) THEN Exception("OverflowError")
    ELSE ZScoreNormalized(current_interest, seven_day_history)

(* the three functions are called on the stored arguments *)
NormalizeReddit ==
    /\ n_pc = "input" /\ n_fn = "normalize_reddit_score"
    /\ n_out' = normalize_reddit_score(n_args[1], n_args[2], n_args[3])
    /\ n_pc' = "done"
    /\ UNCHANGED <<n_fn, n_args>>

NormalizeYouTube ==
    /\ n_pc = "input" /\ n_fn = "normalize_youtube_traction"
    /\ n_out' = normalize_youtube_traction(n_args[1], n_args[2], n_args[3], n_args[4])
    /\ n_pc' = "done"
    /\ UNCHANGED <<n_fn, n_args>>

GoogleTrendsSpike ==
    /\ n_pc = "input" /\ n_fn = "calculate_google_trends_spike"
    /\ n_out' = calculate_google_trends_spike(n_args[1], n_args[2])
    /\ n_pc' = "done"
    /\ UNCHANGED <<n_fn, n_args>>

----------------------------------------------------------------------------
(* api/collection.py: the triggers (POST /collect, the scheduled job and   *)
(* its retry), run_collection and the scheduler's failure bookkeeping.     *)
(* Each trigger runs as a process; a step is what a process does between   *)
(* two awaits on the database or on collect_all.                           *)

(* collectors/topics.py: DEFAULT_TOPICS, cut to NumDefaultTopics items *)
DEFAULT_TOPICS == [j \in 1..NumDefaultTopics |-> j]

(* run_collection lines 527-542: the collectors given to the orchestrator *)
PipelineCollectors == SubSeq(CollectorNames, 1, 4)

RetryJob == "daily_collection_retry"

Process(type) ==
    [type |-> type, pc |-> "idle", cid |-> 0, scheduled |-> 0, handled |-> "none"]

NewCollection ==
    [status |-> "in_progress", completed_at |-> "NULL", trends |-> 0, scored |-> FALSE]

(* select(DataCollection).where(status == "in_progress") *)
InProgress == {c \in 1..Len(p_collections) : p_collections[c].status = "in_progress"}

(* POST /collect arrives *)
StartManual(p) ==
    /\ p_proc[p].type = "manual" /\ p_proc[p].pc = "idle"
    /\ p_proc' = [p_proc EXCEPT ![p].pc = "check"]
    /\ UNCHANGED <<p_collections, p_jobs, p_failures>>

(* an instance of a scheduler job is at work; both jobs are added with
   max_instances=1 (scheduler.py line 37, lines 796 and 833) *)
JobRunning(type) ==
    \E q \in 1..Len(p_proc) :
        p_proc[q].type = type /\ p_proc[q].pc \notin {"idle", "skipped", "done"}

(* the cron job 'daily_collection' fires *)
StartDaily(p) ==
    /\ p_proc[p].type = "daily" /\ p_proc[p].pc = "idle"
    /\ ~JobRunning("daily")
    /\ p_proc' = [p_proc EXCEPT ![p].pc = "check"]
    /\ UNCHANGED <<p_collections, p_jobs, p_failures>>

(* the date job 'daily_collection_retry' fires; a date job runs once and is
   then removed from the job store *)
StartRetry ==
    /\ RetryJob \in p_jobs
    /\ ~JobRunning("retry")
    /\ p_jobs' = p_jobs \ {RetryJob}
    /\ p_proc' = Append(p_proc, [Process("retry") EXCEPT !.pc = "check"])
    /\ UNCHANGED <<p_collections, p_failures>>

(* the `except Exception` branch of the scheduled job (lines 769-797):
   increment_failure_count, then add_job(id='daily_collection_retry',
   replace_existing=True); the retry's branch (lines 907-919) only counts *)
HandleException(p) ==
    /\ p_failures' = p_failures + 1
    /\ IF p_proc[p].type = "daily"
       THEN /\ p_jobs' = p_jobs \cup {RetryJob}
            /\ p_proc' = [p_proc EXCEPT ![p].pc = "done", ![p].handled = "incremented",
                                        ![p].scheduled = @ + 1]
       ELSE /\ p_jobs' = p_jobs
            /\ p_proc' = [p_proc EXCEPT ![p].pc = "done", ![p].handled = "incremented"]

(* the check for a collection in progress (lines 713-732, 867-881,
   945-963). scalar_one_or_none() raises MultipleResultsFound when more
   than one row matches. *)
TriggerCheck(p) ==
    /\ p_proc[p].pc = "check"
    /\ IF Cardinality(InProgress) = 0
       THEN /\ p_proc' = [p_proc EXCEPT ![p].pc = "create"]
            /\ UNCHANGED <<p_jobs, p_failures>>
       ELSE IF Cardinality(InProgress) = 1
       THEN /\ p_proc' = [p_proc EXCEPT ![p].pc =
                              IF p_proc[p].type = "manual" THEN "conflict" ELSE "skipped"]
            /\ UNCHANGED <<p_jobs, p_failures>>
       ELSE IF p_proc[p].type = "manual"
       THEN /\ p_proc' = [p_proc EXCEPT ![p].pc = "error"]
            /\ UNCHANGED <<p_jobs, p_failures>>
       ELSE HandleException(p)
    /\ UNCHANGED p_collections

(* the new DataCollection row is committed (lines 746-753, 884-891,
   966-973) *)
TriggerCreate(p) ==
    /\ p_proc[p].pc = "create"
    /\ p_collections' = Append(p_collections, NewCollection)
    /\ p_proc' = [p_proc EXCEPT ![p].pc = "run", ![p].cid = Len(p_collections) + 1]
    /\ UNCHANGED <<p_jobs, p_failures>>

(* a collector crashed or reported failed items *)
Troubled(i) ==
    \/ task[i].kind = "exception"
    \/ task[i].kind = "result" /\ task[i].value.failed_calls > 0

(* how the collectors of a run fared *)
RunProfile ==
    IF \A i \in 1..Len(task) : ~Troubled(i) THEN "clean"
    ELSE IF \A i \in 1..Len(task) : Troubled(i) THEN "all_troubled"
    ELSE "partial"

(* what a collector's collect() may end with in a run: a result with any
   number of failed items, or a crash *)
PipelineOutcomes(name) ==
    {o \in TaskOutcomes(name, Len(DEFAULT_TOPICS)) :
        o.kind = "exception" => o.type = "RuntimeError"}

RECURSIVE OutcomeSeqs(_)
OutcomeSeqs(n) ==
    IF n = 0 THEN {<<>>}
    ELSE {Append(s, o) : s \in OutcomeSeqs(n - 1),
                          o \in PipelineOutcomes(PipelineCollectors[n])}

(* run_collection up to the await of collect_all (lines 510-548): the
   orchestrator is built and every collector's collect() ends one way or
   another *)
RunCollect(p) ==
    /\ p_proc[p].pc = "run"
    /\ o_pc = "idle"
    /\ collectors' = PipelineCollectors
    /\ o_topics' = DEFAULT_TOPICS
    /\ task' \in OutcomeSeqs(Len(PipelineCollectors))
    /\ finished' = <<>>
    /\ results' = <<>>
    /\ o_return' = [kind |-> "none"]
    /\ o_pc' = "gather"
    /\ p_proc' = [p_proc EXCEPT ![p].pc = "collecting"]
    /\ UNCHANGED <<p_collections, p_jobs, p_failures>>

(* what collect_all returns or raises once every task is done (orchestrator
   lines 93-167) *)
CollectAllOutcome ==
    IF MetricsOutcome.kind = "exception" THEN MetricsOutcome
    ELSE [kind |-> "result", value |-> ProcessResults(1, <<>>)]

RECURSIVE CountData(_, _)
(* store_trends (lines 36-123): one Trend per data item that is not None *)
CountData(res, names) ==
    IF names = {} THEN 0
    ELSE LET n == CHOOSE x \in names : TRUE
         IN Len(res[n].data) + CountData(res, names \ {n})

(* update_collection_status lines 424-426: the same default arguments as in
   collect_all are built here *)
StatusMetricsOutcome == MetricsOutcome

(* mark_collection_failed (lines 464-499) *)
(* variant: the status is set and completed_at is left as it was *)
MarkFailed_NoCompletedAt(c) == [c EXCEPT !.status = "failed"]

MarkFailed(c) == [c EXCEPT !.status = "failed", !.completed_at = "now"]

(* run_collection from the return of collect_all on (lines 545-609): store_trends,
   calculate_and_update_scores and update_collection_status, any exception
   ending in mark_collection_failed; run_collection itself never raises *)
RunOutcome(c) ==
    IF CollectAllOutcome.kind # "result" THEN MarkFailed(c)
    ELSE LET stored == [c EXCEPT !.trends = CountData(CollectAllOutcome.value,
                                                      DOMAIN CollectAllOutcome.value),
                                 !.scored = TRUE]
         IN IF StatusMetricsOutcome.kind = "exception" THEN MarkFailed(stored)
            ELSE [stored EXCEPT !.status = "completed", !.completed_at = "now"]

RunFinish(p) ==
    /\ p_proc[p].pc = "collecting"
    /\ o_pc = "gather" /\ AllTasksDone
    /\ p_collections' = [p_collections EXCEPT ![p_proc[p].cid] = RunOutcome(@)]
    /\ p_proc' = [p_proc EXCEPT ![p].pc = IF p_proc[p].type = "manual" THEN "done"
                                          ELSE "after_run"]
    /\ collectors' = <<>> /\ o_topics' = <<>> /\ task' = <<>> /\ finished' = <<>>
    /\ results' = <<>> /\ o_return' = [kind |-> "none"] /\ o_pc' = "idle"
    /\ UNCHANGED <<p_jobs, p_failures>>

(* the scheduled job and its retry after run_collection has returned
   (lines 758-767 and 896-905): reset_failure_count deletes the
   scheduler_failures rows *)
TriggerFinish(p) ==
    /\ p_proc[p].pc = "after_run"
    /\ p_failures' = 0
    /\ p_proc' = [p_proc EXCEPT ![p].pc = "done", ![p].handled = "reset"]
    /\ UNCHANGED <<p_collections, p_jobs>>

----------------------------------------------------------------------------
(* DailyQuotaRateLimiter across calendar dates and process restarts: the   *)
(* rows of api_quota_usage under the unique key (api_name, date)           *)

ApiNames == {"youtube", "claude"}
Dates == 1..MaxDays
QuotaKeys == ApiNames \X Dates

(* variant: the usage is read by api_name alone, whatever the date *)
UsageOn_AnyDate(view, api, day) ==
    LET days == { d \in Dates : view[<<api, d>>] # <<>> }
    IN IF days = {} THEN 0
       ELSE view[<<api, CHOOSE d \in days : \A e \in days : e >= d>>][1]

(* get_usage_today: the units_used of the row WHERE api_name == self.api_name
   AND date == today, 0 when there is none *)
UsageOn(view, api, day) ==
    IF view[<<api, day>>] = <<>> THEN 0 ELSE view[<<api, day>>][1]

NeverRead == [d \in Dates |-> -1]

(* DailyQuotaRateLimiter(api_name, daily_limit, db_session): the instance
   keeps no counter of its own, only the name and the session *)
NewLimiter(api) ==
    /\ Len(d_limiters) < NumLimiters
    /\ d_limiters' = Append(d_limiters, [api_name |-> api, proc |-> d_proc])
    /\ d_read' = Append(d_read, NeverRead)
    /\ UNCHANGED <<d_today, d_table, d_tx, d_proc, d_spent, d_unsaved>>

(* the instances a running process can call are its own *)
Alive(i) == d_limiters[i].proc = d_proc

(* get_usage_today() on instance i *)
DayGetUsage(i) ==
    /\ Alive(i)
    /\ d_read' = [d_read EXCEPT ![i][d_today] =
                     UsageOn(d_tx, d_limiters[i].api_name, d_today)]
    /\ UNCHANGED <<d_today, d_table, d_tx, d_proc, d_limiters, d_spent, d_unsaved>>

(* increment_usage(units) on instance i: the upsert on (api_name, today),
   then get_usage_today() for the new total; no commit *)
DayIncrement(i, units) ==
    /\ Alive(i)
    /\ LET key == <<d_limiters[i].api_name, d_today>>
           view == [d_tx EXCEPT ![key] = Upsert(@, units)]
       IN /\ view[key][1] <= MaxDayUsage
          /\ d_tx' = view
          /\ d_unsaved' = [d_unsaved EXCEPT ![key] = @ + units]
          /\ d_read' = [d_read EXCEPT ![i][d_today] = UsageOn(view, key[1], d_today)]
    /\ UNCHANGED <<d_today, d_table, d_proc, d_limiters, d_spent>>

(* the owner of the session commits *)
DayCommit ==
    /\ d_tx # d_table
    /\ d_table' = d_tx
    /\ d_spent' = [k \in QuotaKeys |-> d_spent[k] + d_unsaved[k]]
    /\ d_unsaved' = [k \in QuotaKeys |-> 0]
    /\ UNCHANGED <<d_today, d_tx, d_proc, d_limiters, d_read>>

(* the process ends and another starts with a new session: what was not
   committed is rolled back, the instances of the old process are gone *)
Restart ==
    /\ d_proc < MaxProcs
    /\ d_proc' = d_proc + 1
    /\ d_tx' = d_table
    /\ d_unsaved' = [k \in QuotaKeys |-> 0]
    /\ UNCHANGED <<d_today, d_table, d_limiters, d_read, d_spent>>

(* midnight: date.today() moves on *)
Midnight ==
    /\ d_today < MaxDays
    /\ d_today' = d_today + 1
    /\ UNCHANGED <<d_table, d_tx, d_proc, d_limiters, d_read, d_spent, d_unsaved>>

----------------------------------------------------------------------------
(* GoogleTrendsCollector.collect: the 60-second delay between topic fetches *)
(* of one collector instance; times are seconds                            *)

RequestDelaySeconds == 60

(* how much later the clock reads when it is read again *)
ClockGaps == {0, 20, 60}

(* how long one _fetch_topic_interest call takes, its retries included *)
FetchDurations == {20, 80}

(* how much later the clock reads when it is read right after a step *)
ClockLags == {0, 20}

(* how a topic fetch ends: data, None after the retries, or an exception *)
TopicOutcomes == {"data", "None", "exception"}

(* `wait_time = 60 - elapsed` *)
WaitTime(elapsed) == RequestDelaySeconds - elapsed

(* variant: the time is taken when the request is sent *)
LastRequestTime_AtStart(start, after) == start

(* `self.last_request_time = datetime.now(timezone.utc)` at the end of the
   loop body: the clock reading after the fetch was handled *)
LastRequestTime(start, after) == after

(* collect(topics) is called on the instance *)
TrendsCollect ==
    /\ gt_pc = "idle"
    /\ gt_collects < MaxCollects
    /\ \E n \in 0..MaxTrendTopics, gap \in ClockGaps :
          /\ gt_n' = n
          /\ gt_clock' = gt_clock + gap
          /\ gt_pc' = IF n = 0 THEN "build" ELSE "head"
    /\ gt_idx' = 1
    /\ UNCHANGED <<gt_last, gt_collects, gt_wake, gt_start, gt_end, gt_outcome>>

(* the fetch of the topic starts: `call_start = datetime.now(timezone.utc)` *)
BeginFetch(now) ==
    /\ gt_pc' = "fetching"
    /\ gt_start' = now
    /\ gt_clock' = now

(* head of the loop body, lines 294-308: the elapsed time is computed and
   the task sleeps, or the fetch starts at once *)
TrendsHead ==
    /\ gt_pc = "head"
    /\ \E gap \in ClockGaps :
          LET now == gt_clock + gap
              elapsed == now - gt_last
          IN IF gt_last # -1 /\ elapsed < RequestDelaySeconds
             THEN /\ gt_pc' = "sleeping"
                  /\ gt_wake' = now + WaitTime(elapsed)
                  /\ gt_clock' = now
                  /\ UNCHANGED gt_start
             ELSE /\ \E lag \in ClockLags : BeginFetch(now + lag)
                  /\ UNCHANGED gt_wake
    /\ UNCHANGED <<gt_last, gt_n, gt_idx, gt_collects, gt_end, gt_outcome>>

(* asyncio.sleep(wait_time) ends, not before its delay has passed *)
TrendsWake ==
    /\ gt_pc = "sleeping"
    /\ \E over \in ClockLags : BeginFetch(gt_wake + over)
    /\ UNCHANGED <<gt_last, gt_n, gt_idx, gt_collects, gt_wake, gt_end, gt_outcome>>

(* lines 310-357: the fetch ends, its outcome is counted and the time is
   stored; then the next topic, or the end of the loop *)
TrendsFetch ==
    /\ gt_pc = "fetching"
    /\ \E dur \in FetchDurations, o \in TopicOutcomes, lag \in ClockLags :
          LET ended == gt_start + dur IN
          /\ gt_end' = ended
          /\ gt_outcome' = o
          /\ gt_clock' = ended + lag
          /\ gt_last' = LastRequestTime(gt_start, ended + lag)
    /\ gt_idx' = gt_idx + 1
    /\ gt_pc' = IF gt_idx + 1 > gt_n THEN "build" ELSE "head"
    /\ UNCHANGED <<gt_n, gt_collects, gt_wake, gt_start>>

(* the CollectionResult is built and collect() returns *)
TrendsReturn ==
    /\ gt_pc = "build"
    /\ gt_pc' = "idle"
    /\ gt_collects' = gt_collects + 1
    /\ UNCHANGED <<gt_clock, gt_last, gt_n, gt_idx, gt_wake, gt_start, gt_end, gt_outcome>>

----------------------------------------------------------------------------
(* calculate_and_update_scores: the loop over the trends of a collection   *)

(* a normalizer call raised *)
Raised == -2

(* what a normalizer call gives: a score from 0 to 100, or an exception *)
NormalizerOutcomes == {51, Raised}

(* a Trend row as store_trends left it: the raw metrics are numbers or NULL,
   the scores are NULL *)
TrendRow(reddit, views, likes, interest, bonus) ==
    [ reddit_score |-> reddit, youtube_views |-> views, youtube_likes |-> likes,
      google_trends_interest |-> interest, similarweb_bonus_applied |-> bonus,
      reddit_velocity_score |-> None, youtube_traction_score |-> None,
      google_trends_spike_score |-> None,
      momentum_score |-> None, confidence_level |-> "NULL", combiner |-> "none" ]

(* `try: x = normalize(...) except Exception: x = None`, when the raw data
   of the platform is there *)
PlatformScore(available, outcome) ==
    IF available /\ outcome # Raised THEN outcome ELSE None

(* variant: the confidence of the combiner is stored as it is *)
StoredConfidence_AsIs(confidence) == confidence

(* `confidence_level if confidence_level != 'unknown' else 'low'` *)
StoredConfidence(confidence) == IF confidence = "unknown" THEN "low" ELSE confidence

(* lines 308-313 *)
PlatformsMissing(r, y, g) ==
    (IF r = None THEN 1 ELSE 0) + (IF y = None THEN 1 ELSE 0) + (IF g = None THEN 1 ELSE 0)

(* one iteration of `for trend in trends`, lines 212-366 *)
ScoredTrend(trend, o_reddit, o_youtube, o_google) ==
    LET r == PlatformScore(trend.reddit_score # None, o_reddit)
        y == PlatformScore(trend.youtube_views # None /\ trend.youtube_likes # None,
                           o_youtube)
        g == PlatformScore(trend.google_trends_interest # None, o_google)
        similarweb_traffic_spike == trend.similarweb_bonus_applied = "true"
        m == IF PlatformsMissing(r, y, g) > 0
             THEN calculate_momentum_score_safe(r, y, g, similarweb_traffic_spike)
             ELSE calculate_momentum_score(r, y, g, similarweb_traffic_spike)
    IN [trend EXCEPT !.reddit_velocity_score = r,
                     !.youtube_traction_score = y,
                     !.google_trends_spike_score = g,
                     !.momentum_score = m.score,
                     !.confidence_level = StoredConfidence(m.confidence),
                     !.combiner = m.confidence]

(* lines 171-207: the collection and its trends are loaded; with no trend
   the call returns at once *)
UpdateLoad ==
    /\ u_pc = "called"
    /\ u_trends' = u_stored
    /\ u_idx' = 1
    /\ u_pc' = IF u_stored = <<>> THEN "returned" ELSE "loop"
    /\ UNCHANGED <<u_stored, u_degraded>>

(* the loop body for the next trend *)
UpdateTrend ==
    /\ u_pc = "loop"
    /\ u_idx <= Len(u_trends)
    /\ \E o_reddit, o_youtube, o_google \in NormalizerOutcomes :
          LET t == ScoredTrend(u_trends[u_idx], o_reddit, o_youtube, o_google) IN
          /\ u_trends' = [u_trends EXCEPT ![u_idx] = t]
          /\ u_degraded' = u_degraded +
                (IF PlatformsMissing(t.reddit_velocity_score, t.youtube_traction_score,
                                     t.google_trends_spike_score) > 0 THEN 1 ELSE 0)
    /\ u_idx' = u_idx + 1
    /\ UNCHANGED <<u_stored, u_pc>>

(* `await db.commit()` and the return of the summary *)
UpdateCommit ==
    /\ u_pc = "loop"
    /\ u_idx > Len(u_trends)
    /\ u_stored' = u_trends
    /\ u_pc' = "returned"
    /\ UNCHANGED <<u_trends, u_idx, u_degraded>>

----------------------------------------------------------------------------
(* RequestsPerMinuteRateLimiter.acquire called by several tasks of one     *)
(* event loop: a task gives up control only in its asyncio.sleep           *)

Tasks == 1..NumTasks

(* the later of two clock readings *)
Later(a, b) == IF a >= b THEN a ELSE b

(* acquire() of task t up to its suspension point, lines 51-65, or to its
   end when it does not have to wait *)
TaskAcquire(t) ==
    /\ lc_pc[t] = "ready"
    /\ Len(rl_admitted) < MaxAcquires
    /\ \E gap \in 0..MaxGap :
          LET now == rl_clock + gap
              q == DropOlder(rl_requests, now - rl_window)
          IN IF AtLimit(q) /\ WaitSeconds(q, now) > 0
             THEN /\ lc_pc' = [lc_pc EXCEPT ![t] = "sleeping"]
                  /\ lc_wake' = [lc_wake EXCEPT ![t] = now + WaitSeconds(q, now)]
                  /\ rl_requests' = q
                  /\ rl_clock' = now
                  /\ UNCHANGED rl_admitted
             ELSE /\ \E lag \in 0..MaxOvershoot : Record(q, now + lag)
                  /\ UNCHANGED <<lc_pc, lc_wake>>
    /\ UNCHANGED <<rl_limit, rl_window, rl_wake, rl_pc>>

(* the sleep of task t ends, not before its delay has passed, and line 68
   appends the time read then: the deque is not looked at again *)
TaskWake(t) ==
    /\ lc_pc[t] = "sleeping"
    /\ \E over \in 0..MaxOvershoot :
          Record(rl_requests, Later(rl_clock, lc_wake[t]) + over)
    /\ lc_pc' = [lc_pc EXCEPT ![t] = "ready"]
    /\ UNCHANGED <<rl_limit, rl_window, rl_wake, rl_pc, lc_wake>>

----------------------------------------------------------------------------
(* Values of the frames that a specification does not exercise *)

RetryIdle ==
    /\ max_attempts = 0 /\ backoff_base = 0 /\ exceptions = {}
    /\ attempt = 0 /\ call_count = 0 /\ sleeps = <<>> /\ w_trace = <<>>
    /\ w_pc = "idle" /\ w_result = "pending"

CollectIdle ==
    /\ kind = "none" /\ topics = <<>> /\ idx = 0 /\ c_pc = "idle"
    /\ all_data = <<>> /\ successful_calls = 0 /\ failed_calls = 0
    /\ errors = <<>> /\ c_result = [kind |-> "none"]
    /\ usage = 0 /\ channel_cache = {} /\ quota_refused = {} /\ quota_hit = {} /\ usage_before = 0
    /\ net_calls = 0 /\ top_sites = 0 /\ site_idx = 0

OrchIdle ==
    /\ collectors = <<>> /\ o_topics = <<>> /\ task = <<>>
    /\ finished = <<>> /\ results = <<>> /\ o_return = [kind |-> "none"]
    /\ o_pc = "idle"

LimiterIdle ==
    /\ rl_limit = 0 /\ rl_window = 0 /\ rl_requests = <<>> /\ rl_clock = 0
    /\ rl_admitted = <<>> /\ rl_wake = 0 /\ rl_pc = "idle"

QuotaIdle ==
    /\ q_limit = 0 /\ q_start = 0 /\ q_rows = <<>> /\ q_pending = <<>> /\ q_lock = 0
    /\ q_mode = <<>> /\ q_session = <<>> /\ q_units = <<>> /\ q_pc = <<>>
    /\ q_seen = <<>> /\ q_exc = <<>> /\ q_added = <<>> /\ q_ret = <<>>

ScoreIdle ==
    /\ s_reddit = None /\ s_youtube = None /\ s_google = None
    /\ s_spike = FALSE /\ s_safe = Unscored /\ s_strict = Unscored /\ s_pc = "idle"


NormIdle ==
    n_fn = "none" /\ n_args = <<>> /\ n_out = NotCalled /\ n_pc = "idle"

PipelineIdle ==
    p_collections = <<>> /\ p_jobs = {} /\ p_failures = 0 /\ p_proc = <<>>

DayIdle ==
    /\ d_today = 0 /\ d_table = <<>> /\ d_tx = <<>> /\ d_proc = 0
    /\ d_limiters = <<>> /\ d_read = <<>> /\ d_spent = <<>> /\ d_unsaved = <<>>

TrendsIdle ==
    /\ gt_clock = 0 /\ gt_last = -1 /\ gt_pc = "none" /\ gt_n = 0 /\ gt_idx = 0
    /\ gt_collects = 0 /\ gt_wake = 0 /\ gt_start = -1 /\ gt_end = -1
    /\ gt_outcome = "none"

UpdateIdle ==
    u_trends = <<>> /\ u_idx = 0 /\ u_stored = <<>> /\ u_degraded = 0 /\ u_pc = "none"

SharedLimiterIdle == lc_pc = <<>> /\ lc_wake = <<>>

MoreIdle == TrendsIdle /\ UpdateIdle /\ SharedLimiterIdle

LateIdle == DayIdle /\ MoreIdle

AppIdle == NormIdle /\ PipelineIdle /\ LateIdle
----------------------------------------------------------------------------
(* SpecRetry: the wrapper around a function whose every call may return a  *)
(* value, return None, or raise any exception                              *)

(* the decorator's `exceptions` arguments used in the repository and tests *)
ExceptionArgs ==
    { {"Exception"}, {"ValueError"}, {"HttpError"},
      {"RequestException", "HTTPError"} }

(* what one call of the wrapped function may do *)
FuncOutcomes ==
    { Returns("value"), Returns("None") }
        \cup { Raises(e) : e \in {"ValueError", "TypeError", "HTTPError", "Timeout"} }

InitRetry ==
    /\ max_attempts \in 1..MaxAttemptsBound
    /\ backoff_base \in 1..MaxBackoffBase
    /\ exceptions \in ExceptionArgs
    /\ attempt = 1 /\ call_count = 0 /\ sleeps = <<>> /\ w_trace = <<>>
    /\ w_pc = "call" /\ w_result = "pending"
    /\ CollectIdle /\ OrchIdle /\ LimiterIdle /\ QuotaIdle /\ ScoreIdle /\ AppIdle

RetryCall ==
    /\ \E out \in FuncOutcomes : WrapperCall(out)
    /\ UNCHANGED <<max_attempts, backoff_base, exceptions>>
    /\ UNCHANGED <<collectVars, orchVars, limiterVars, quotaVars, scoreVars, appVars>>

RetrySleep ==
    /\ WrapperSleep
    /\ UNCHANGED <<max_attempts, backoff_base, exceptions>>
    /\ UNCHANGED <<collectVars, orchVars, limiterVars, quotaVars, scoreVars, appVars>>

NextRetry == RetryCall \/ RetrySleep

SpecRetry == InitRetry /\ [][NextRetry]_vars

(* every call so far raised an exception of a retryable type *)
AllRetryable ==
    \A i \in 1..Len(w_trace) : w_trace[i].raises /\ Caught(w_trace[i].v)

(* C7: a function that raises a retryable exception on every call is called
   exactly max_attempts times; the wrapper then returns None, never raising *)
C7_RetryBudget ==
    /\ (AllRetryable => w_pc # "raised" /\ call_count <= max_attempts)
    /\ (AllRetryable /\ w_pc = "returned" /\ call_count > 0
            => call_count = max_attempts /\ w_result = "None")

C7_Witness ==
    /\ AllRetryable /\ w_pc = "returned" /\ max_attempts = 3
    /\ call_count = 3 /\ w_result = "None"

(* C8: an exception whose type is not in the retryable set is propagated
   after exactly one call: no sleep before it and no attempt after it *)
C8_NonRetryablePropagates ==
    /\ \A i \in 1..Len(w_trace) :
          (w_trace[i].raises /\ ~IsInstance(w_trace[i].v, exceptions))
              => /\ i = Len(w_trace)
                 /\ w_pc = "raised"
                 /\ w_result = w_trace[i].v
                 /\ Len(sleeps) = i - 1
    /\ (Len(w_trace) >= 1 /\ w_trace[1].raises
            /\ ~IsInstance(w_trace[1].v, exceptions))
          => call_count = 1 /\ sleeps = <<>> /\ w_pc = "raised"

C8_Witness ==
    /\ w_pc = "raised" /\ call_count = 1 /\ sleeps = <<>>
    /\ w_result = "TypeError" /\ exceptions = {"ValueError"} /\ max_attempts = 3

(* C9: after the k-th failed attempt, k < max_attempts, the wrapper sleeps
   backoff_base^k seconds before attempt k+1; it does not sleep after the
   final failed attempt, so an exhausted retry sleeps max_attempts-1 times *)
C9_BackoffSchedule ==
    /\ \A k \in 1..Len(sleeps) : sleeps[k] = Pow(backoff_base, k) /\ k < max_attempts
    /\ (w_pc = "call" => Len(sleeps) = attempt - 1 /\ call_count = attempt - 1)
    /\ (w_pc = "sleep" => Len(sleeps) = attempt - 1 /\ call_count = attempt)
    /\ (AllRetryable /\ w_pc = "returned" /\ call_count > 0
            => Len(sleeps) = max_attempts - 1)

C9_Witness ==
    /\ AllRetryable /\ w_pc = "returned" /\ max_attempts = 3 /\ backoff_base = 2
    /\ sleeps = <<2, 4>>


(* call k returned, and every call before it raised a retryable exception *)
FirstSuccessAt(k) ==
    /\ k \in 1..Len(w_trace)
    /\ ~w_trace[k].raises
    /\ \A i \in 1..(k - 1) : w_trace[i].raises /\ Caught(w_trace[i].v)

(* C31: when the wrapped function first succeeds on attempt k <= max_attempts
   after k - 1 retryable failures, the wrapper returns that attempt's result
   and the function is called exactly k times, with no call after the
   success *)
C31_ReturnsFirstSuccess ==
    \A k \in 1..max_attempts :
        FirstSuccessAt(k) =>
            /\ w_pc = "returned"
            /\ w_result = w_trace[k].v
            /\ call_count = k
            /\ Len(w_trace) = k
            /\ Len(sleeps) = k - 1

C31_Witness ==
    /\ max_attempts = 3
    /\ FirstSuccessAt(2)
    /\ w_trace[1] = Raises("ValueError")
    /\ w_trace[2] = Returns("value")
    /\ w_pc = "returned" /\ w_result = "value" /\ call_count = 2
----------------------------------------------------------------------------
(* SpecCollect: one collect() call of one collector                         *)

CollectorKinds ==
    {"reddit", "youtube", "google_trends", "similarweb", "similarweb_social"}

(* today's stored YouTube usage when collect() starts *)
InitialUsage == {0} \cup { DailyLimit - h : h \in 0..MaxHeadroom }

InitCollect ==
    /\ kind \in CollectorKinds
    /\ \E n \in 0..MaxTopics : topics = [j \in 1..n |-> j]
    /\ max_attempts = DecoratorArgs(kind).max_attempts
    /\ backoff_base = DecoratorArgs(kind).backoff_base
    /\ exceptions = DecoratorArgs(kind).exceptions
    /\ attempt = 0 /\ call_count = 0 /\ sleeps = <<>> /\ w_trace = <<>>
    /\ w_pc = "idle" /\ w_result = "pending"
    /\ idx = 0 /\ c_pc = "start"
    /\ all_data = <<>> /\ successful_calls = 0 /\ failed_calls = 0
    /\ errors = <<>> /\ c_result = [kind |-> "none"]
    /\ usage \in (IF kind = "youtube" THEN InitialUsage ELSE {0})
    /\ channel_cache \in (IF kind = "youtube" THEN {{}, {1}} ELSE {{}})
    /\ quota_refused = {} /\ quota_hit = {} /\ usage_before = usage /\ net_calls = 0 /\ top_sites = 0 /\ site_idx = 0
    /\ OrchIdle /\ LimiterIdle /\ QuotaIdle /\ ScoreIdle /\ AppIdle

otherThanCollect == <<orchVars, limiterVars, quotaVars, scoreVars, appVars>>

NextCollect ==
    \/ (CollectStart /\ UNCHANGED otherThanCollect)
    \/ (FetchEnter /\ UNCHANGED otherThanCollect)
    \/ (FetchCall /\ UNCHANGED otherThanCollect)
    \/ (YouTubeFetchCall /\ UNCHANGED otherThanCollect)
    \/ (FetchSleep /\ UNCHANGED otherThanCollect)
    \/ (CollectReturn /\ UNCHANGED otherThanCollect)
    \/ (SocialTopSitesEnter /\ UNCHANGED otherThanCollect)
    \/ (SocialTopSitesCall /\ UNCHANGED otherThanCollect)
    \/ (SocialSiteEnter /\ UNCHANGED otherThanCollect)
    \/ (SocialReferralsCall /\ UNCHANGED otherThanCollect)
    \/ (SocialReturn /\ UNCHANGED otherThanCollect)

SpecCollect == InitCollect /\ [][NextCollect]_vars

CollectDone == c_pc \in {"returned", "raised"}

(* C5: collect() of every collector returns a CollectionResult and never
   raises, whatever the per-item fetch outcomes are *)
C5_CollectNeverRaises ==
    /\ c_pc # "raised"
    /\ (c_pc = "returned" => c_result.kind = "result")

QuotaMessages ==
    {"YouTube quota exceeded", "YouTube quota exceeded, stopped collection"}

(* C6: in the YouTube collector, once the quota pre-check of an item's API
   call is refused, no later item is fetched and collect() returns a result
   that counts that item and all items not yet attempted as failed, with a
   quota-related error message *)
C6_QuotaPrecheckShortCircuit ==
    (kind = "youtube" /\ quota_refused # {} /\ CollectDone) =>
        /\ c_pc = "returned"
        /\ c_result.kind = "result"
        /\ c_result.value.failed_calls
              = Len(topics) - c_result.value.successful_calls
        /\ \E k \in 1..Len(c_result.value.errors) :
              c_result.value.errors[k].msg \in QuotaMessages
        /\ \A i \in quota_refused :
              \A k \in 1..Len(c_result.value.data) : c_result.value.data[k].item # i

(* vendor answers that report a permanent failure of the item *)
PermanentFailures == {"http_401", "http_404", "channel_not_found"}

(* C10: a not-found or authentication failure reported by the vendor leads
   to exactly one fetch attempt for the item, in every collector: no retry,
   no backoff sleep, and the item is recorded as failed *)
C10_PermanentFailureNotRetried ==
    (c_pc \notin {"idle", "start"} /\ Len(w_trace) > 0
        /\ w_trace[1].raw \in PermanentFailures)
        => /\ w_pc \in {"returned", "raised"}
           /\ call_count = 1
           /\ sleeps = <<>>
           /\ failed_calls > 0

(* C14: every CollectionResult returned by a collector's collect() with
   total_calls > 0 has success_rate = successful_calls / total_calls *)
C14_SuccessRateIsRatio ==
    (c_pc = "returned" /\ c_result.kind = "result"
        /\ c_result.value.total_calls > 0)
        => RateEq(c_result.value.success_rate,
                  Rate(c_result.value.successful_calls, c_result.value.total_calls))

(* C16: in the CollectionResult returned by a collector every input item
   has a position in data, a failed item as a None placeholder, so data has
   as many entries as there are input items *)
C16_DataKeepsPositions ==
    (c_pc = "returned" /\ c_result.kind = "result")
        => Len(c_result.value.data) = Len(topics)

(* the fetch function, with its retries, is running *)
FetchRunning == w_pc \in {"call", "sleep"}

(* the records of data are in the order of their items in the input *)
InInputOrder(data) ==
    \A j, k \in 1..Len(data) : j < k => data[j].item < data[k].item

C17_StateInOrder ==
    /\ InInputOrder(all_data)
    /\ c_result.kind = "result" => InInputOrder(c_result.value.data)
    /\ FetchRunning => c_pc \in {"fetch", "fetch_top", "fetch_site"}
    /\ (kind # "similarweb_social" /\ c_pc \in {"loop", "fetch"})
          => /\ successful_calls + failed_calls = idx - 1
             /\ \A k \in 1..Len(all_data) : all_data[k].item < topics[idx]

C17_StepInOrder ==
    idx' # idx => (idx' = idx + 1 /\ ~FetchRunning')

(* C17: within one collect(items) the items are fetched strictly in input
   order, the fetch of item i with all its retries finishing before the
   fetch of item i+1 starts, and the records in data keep the relative
   order of their items in the input *)
C17_InputOrder == [](C17_StateInOrder) /\ [][C17_StepInOrder]_vars

C17_Witness ==
    /\ c_pc = "returned"
    /\ c_result.kind = "result"
    /\ Len(c_result.value.data) >= 2
    /\ Len(sleeps) > 0


(* collect() found today's usage at or above the daily limit when it
   started: no request was sent and no pre-check made since *)
StartExhausted ==
    kind = "youtube" /\ usage >= DailyLimit /\ net_calls = 0 /\ quota_refused = {}

(* the result counts every item that did not succeed as failed and carries
   an error message that names the quota *)
QuotaResult ==
    /\ c_result.kind = "result"
    /\ c_result.value.failed_calls = Len(topics) - c_result.value.successful_calls
    /\ \E k \in 1..Len(c_result.value.errors) :
          c_result.value.errors[k].msg \in QuotaMessages

(* C30: in YouTubeCollector.collect, once quota exhaustion is detected
   (usage at or above the daily limit when collect starts, or an HTTP 403
   during an item's fetch), no fetch is attempted for any later item, and
   the returned result has failed_calls = len(topics) - successful_calls
   and an error message naming the quota *)
C30_QuotaExhaustionStopsCollection ==
    (kind = "youtube" /\ (StartExhausted \/ quota_hit # {})) =>
        /\ c_pc \in {"start", "build", "returned"}
        /\ c_pc = "returned" => QuotaResult

(* the fetch of the current channel, with its retries, is over *)
ChannelDone ==
    kind = "youtube" /\ w_pc \in {"returned", "raised"} /\ Len(w_trace) > 0

(* quota units the fetch of the current channel has consumed so far *)
UnitsConsumed == usage - usage_before

(* C33 as stated: collecting one channel consumes at least 3 and at most 4
   quota units, whatever the outcome of the individual API calls and the
   number of retry attempts *)
C33_UnitsPerChannel == ChannelDone => UnitsConsumed \in 3..4

(* this step is one attempt of the YouTube fetch *)
YouTubeAttempt == kind = "youtube" /\ call_count' = call_count + 1

(* C33: one fetch attempt for a channel consumes at least 3 and at most 4
   quota units (three API calls plus one more on a subscriber-count cache
   miss) when it collects the channel's video, and at most 3 units, one for
   each API call that succeeded, when it fails *)
C33_UnitsPerAttempt ==
    [][YouTubeAttempt =>
          IF w_pc' = "returned" /\ w_result' = "value"
          THEN usage' - usage \in 3..4
          ELSE usage' - usage \in 0..3]_vars

(* a channel collected in its first attempt on a cache miss: 4 units *)
C33_Witness ==
    /\ ChannelDone /\ w_pc = "returned" /\ w_result = "value"
    /\ call_count = 1
    /\ topics[idx - 1] \in channel_cache
    /\ UnitsConsumed = 4
----------------------------------------------------------------------------
(* SpecOrch: collect_all over collectors whose collect() tasks run          *)
(* concurrently and end in any order                                        *)

InitOrch ==
    /\ \E k \in 1..NumCollectors : collectors = SubSeq(CollectorNames, 1, k)
    /\ \E n \in 0..MaxTopics : o_topics = [j \in 1..n |-> j]
    /\ task = [i \in 1..Len(collectors) |-> Running]
    /\ finished = <<>>
    /\ results = <<>>
    /\ o_return = [kind |-> "none"]
    /\ o_pc = "gather"
    /\ RetryIdle /\ CollectIdle /\ LimiterIdle /\ QuotaIdle /\ ScoreIdle /\ AppIdle

OrchTaskFinish ==
    /\ \E i \in 1..Len(collectors) : TaskFinish(i)
    /\ UNCHANGED <<retryVars, collectVars, limiterVars, quotaVars, scoreVars, appVars>>

OrchReturn ==
    /\ CollectAllReturn
    /\ UNCHANGED <<retryVars, collectVars, limiterVars, quotaVars, scoreVars, appVars>>

NextOrch == OrchTaskFinish \/ OrchReturn

SpecOrch == InitOrch /\ [][NextOrch]_vars

NameSet == { collectors[i] : i \in 1..Len(collectors) }
Crashed(i) == task[i].kind = "exception"
Returned(i) == task[i].kind = "result"
OrchDone == o_pc \in {"returned", "raised"}

(* C1: collect_all returns a mapping with exactly one entry per input
   collector, whether each collect() returned a full result, a partially
   failed result, or raised *)
C1_OneEntryPerCollector ==
    OrchDone =>
        /\ o_return.kind = "result"
        /\ DOMAIN o_return.value = NameSet
        /\ Cardinality(DOMAIN o_return.value) = Len(collectors)

(* C2: when one collector raises, the entry reported for every other
   collector is exactly the CollectionResult that collector returned, in
   whatever order the collectors finished *)
C2_SiblingsReportedAsIs ==
    (OrchDone /\ (\E j \in 1..Len(collectors) : Crashed(j))
              /\ (\E j \in 1..Len(collectors) : Returned(j))) =>
        /\ o_return.kind = "result"
        /\ \A i \in 1..Len(collectors) :
              Returned(i) => /\ collectors[i] \in DOMAIN o_return.value
                             /\ o_return.value[collectors[i]] = task[i].value

(* C3: for a collector whose collect() raised, collect_all reports under its
   name a result with empty data, successful_calls = 0, failed_calls =
   total_calls = len(topics) and exactly one error message, the text of the
   exception *)
C3_CrashedEntrySynthesized ==
    OrchDone =>
        \A i \in 1..Len(collectors) :
            Crashed(i) =>
                /\ o_return.kind = "result"
                /\ collectors[i] \in DOMAIN o_return.value
                /\ o_return.value[collectors[i]].data = <<>>
                /\ o_return.value[collectors[i]].successful_calls = 0
                /\ o_return.value[collectors[i]].failed_calls = Len(o_topics)
                /\ o_return.value[collectors[i]].total_calls = Len(o_topics)
                /\ o_return.value[collectors[i]].errors = <<task[i].text>>

(* C4: the entry synthesized for a crashed collector has success_rate 0.0,
   for any non-empty topic list *)
C4_CrashedSuccessRateZero ==
    (OrchDone /\ Len(o_topics) > 0) =>
        \A i \in 1..Len(collectors) :
            Crashed(i) =>
                /\ collectors[i] \in DOMAIN results
                /\ RateEq(results[collectors[i]].success_rate, Rate(0, 1))

----------------------------------------------------------------------------
(* SpecLimiter: acquire() called again and again by one caller *)

InitLimiter ==
    /\ rl_limit \in 1..MaxLimit
    /\ rl_window \in 1..MaxWindow
    /\ rl_requests = <<>> /\ rl_clock = 0 /\ rl_admitted = <<>>
    /\ rl_wake = 0 /\ rl_pc = "ready"
    /\ RetryIdle /\ CollectIdle /\ OrchIdle /\ QuotaIdle /\ ScoreIdle /\ AppIdle

otherThanLimiter == <<retryVars, collectVars, orchVars, quotaVars, scoreVars, appVars>>

NextLimiter ==
    \/ (AcquireBegin /\ UNCHANGED otherThanLimiter)
    \/ (AcquireWake /\ UNCHANGED otherThanLimiter)

SpecLimiter == InitLimiter /\ [][NextLimiter]_vars

(* number of recorded timestamps in the window of length rl_window that
   ends at t, its start excluded *)
AdmittedInWindow(t) ==
    Cardinality({ j \in 1..Len(rl_admitted) :
                     rl_admitted[j] > t - rl_window /\ rl_admitted[j] <= t })

(* C11: for acquire() calls made one after another, the number of requests
   admitted (timestamps recorded) within any interval of length
   window_seconds never exceeds limit *)
C11_WindowNeverExceedsLimit ==
    \A j \in 1..Len(rl_admitted) : AdmittedInWindow(rl_admitted[j]) <= rl_limit


(* the event loop ends every asyncio.sleep once its delay has passed *)
SpecLimiterLive ==
    SpecLimiter /\ WF_vars(AcquireWake /\ UNCHANGED otherThanLimiter)

(* this step is an acquire() call that goes to sleep *)
StartsWaiting == rl_pc = "ready" /\ rl_pc' = "sleeping"

(* an acquire() call waits only with at least limit requests recorded in
   the window that ends at its clock reading *)
C32_WaitsOnlyAtCapacity ==
    StartsWaiting => (AdmittedInWindow(rl_clock) >= rl_limit)'

(* C32: acquire() returns without waiting whenever fewer than limit
   requests lie inside the current window, waits only when the window is at
   capacity, and every acquire() call eventually returns as time advances *)
C32_AcquireReturns ==
    /\ [][C32_WaitsOnlyAtCapacity]_vars
    /\ (rl_pc = "sleeping") ~> (rl_pc = "ready")

(* the first limit calls returned at once, the next one waited for the
   oldest request to leave the window and then returned *)
C32_Witness ==
    /\ rl_pc = "ready"
    /\ Len(rl_admitted) = rl_limit + 1
    /\ rl_wake > rl_admitted[1]
    /\ rl_admitted[rl_limit + 1] >= rl_wake
    /\ rl_admitted[rl_limit] < rl_wake
----------------------------------------------------------------------------
(* SpecQuota: callers of increment_usage and of consume(), through shared  *)
(* or separate sessions, on one (api_name, date) key                       *)

(* the table before the callers start: no row for the key, or one row *)
StoredRows == {<<>>} \cup { <<v>> : v \in 0..MaxStoredUsage }

InitQuota ==
    /\ q_limit \in 1..MaxDailyLimit
    /\ q_rows \in StoredRows
    /\ q_start = (IF q_rows = <<>> THEN 0 ELSE q_rows[1])
    /\ q_pending = [s \in Sessions |-> "none"]
    /\ q_lock = 0
    /\ q_mode \in [Callers -> {"increment", "consume"}]
    /\ q_session \in { f \in [Callers -> Sessions] : \A p \in Callers : f[p] <= p }
    /\ q_units \in [Callers -> 1..MaxUnits]
    /\ q_pc = [p \in Callers |-> IF q_mode[p] = "consume" THEN "enter" ELSE "call"]
    /\ q_seen = [p \in Callers |-> 0]
    /\ q_exc = [p \in Callers |-> "unset"]
    /\ q_added = [p \in Callers |-> 0]
    /\ q_ret = [p \in Callers |-> 0]
    /\ RetryIdle /\ CollectIdle /\ OrchIdle /\ LimiterIdle /\ ScoreIdle /\ AppIdle

otherThanQuota == <<retryVars, collectVars, orchVars, limiterVars, scoreVars, appVars>>

NextQuota ==
    \/ (\E p \in Callers : ConsumeEnter(p) /\ UNCHANGED otherThanQuota)
    \/ (\E p \in Callers : ConsumeBody(p) /\ UNCHANGED otherThanQuota)
    \/ (\E p \in Callers : IncrementExecute(p) /\ UNCHANGED otherThanQuota)
    \/ (\E p \in Callers : IncrementReturn(p) /\ UNCHANGED otherThanQuota)
    \/ (\E s \in Sessions : SessionCommit(s) /\ UNCHANGED otherThanQuota)

SpecQuota == InitQuota /\ [][NextQuota]_vars

RECURSIVE SumUnits(_)
(* sum of the units passed by the callers in S to increment_usage *)
SumUnits(S) ==
    IF S = {} THEN 0
    ELSE LET p == CHOOSE x \in S : TRUE IN q_units[p] + SumUnits(S \ {p})

(* callers whose increment_usage call has returned *)
Incremented == { p \in Callers : q_pc[p] = "returned" }

(* every caller is done and every transaction is committed *)
QuotaQuiescent ==
    /\ \A p \in Callers : q_pc[p] \in {"returned", "raised", "refused"}
    /\ \A s \in Sessions : q_pending[s] = "none"

(* C12: after any interleaving of concurrent increment_usage(units) calls
   on one (api_name, date) key, through one or several limiter instances,
   the stored units_used is the previous value plus the sum of all units
   passed, and the key has exactly one row *)
C12_NoLostIncrement ==
    (QuotaQuiescent /\ Incremented # {}) =>
        /\ Len(q_rows) = 1
        /\ q_rows[1] = q_start + SumUnits(Incremented)

C12_Witness ==
    /\ QuotaQuiescent
    /\ Incremented = Callers
    /\ \E p, r \in Callers : q_session[p] # q_session[r]
    /\ q_rows = <<q_start + SumUnits(Callers)>>

(* C13: inside `async with limiter.consume(units)` the usage counter grows
   by exactly units when the body completes without an exception, and is
   left unchanged when the body raises or when entering is refused because
   usage + units would exceed the daily limit, in which case the body is
   not executed *)
C13_ConsumeFrame ==
    \A p \in Callers :
        q_mode[p] = "consume" =>
            /\ q_pc[p] = "returned" => (q_exc[p] = "none" /\ q_added[p] = q_units[p])
            /\ q_pc[p] = "raised" => (q_exc[p] = "error" /\ q_added[p] = 0)
            /\ q_pc[p] = "refused" =>
                  /\ q_seen[p] + q_units[p] > q_limit
                  /\ q_exc[p] = "unset"
                  /\ q_added[p] = 0
            /\ q_pc[p] \in {"body", "call", "upserted", "returned", "raised"} =>
                  q_seen[p] + q_units[p] <= q_limit

C13_Witness ==
    \E p, r, x \in Callers :
        /\ q_mode[p] = "consume" /\ q_pc[p] = "returned" /\ q_added[p] = q_units[p]
        /\ q_mode[r] = "consume" /\ q_pc[r] = "refused"
        /\ q_mode[x] = "consume" /\ q_pc[x] \in {"refused", "raised"}


(* every caller goes through limiter.consume(units), and the stored usage
   was within the limit before they started *)
AllThroughConsume ==
    /\ \A p \in Callers : q_mode[p] = "consume"
    /\ q_start <= q_limit

(* the stored usage of the key: committed, or written by an open
   transaction *)
StoredUsages ==
    { GetUsageToday(s) : s \in Sessions }
        \cup { IF q_rows = <<>> THEN 0 ELSE q_rows[1] }

(* C38: when every consumption of a daily quota goes through
   limiter.consume(units), the stored usage for a date never exceeds
   daily_limit, for any interleaving of concurrent consume contexts sharing
   the same (api_name, date) counter *)
C38_UsageNeverExceedsLimit ==
    AllThroughConsume => \A u \in StoredUsages : u <= q_limit
----------------------------------------------------------------------------
(* SpecResults: every way a CollectionResult comes into being, by a        *)
(* collector's collect() or in collect_all                                 *)

InitResults == InitCollect \/ InitOrch

NextResults == NextCollect \/ NextOrch

SpecResults == InitResults /\ [][NextResults]_vars

Accounted(r) ==
    /\ r.successful_calls >= 0
    /\ r.failed_calls >= 0
    /\ r.successful_calls + r.failed_calls <= r.total_calls

(* C15: every CollectionResult produced by a collector's collect() or
   synthesized by the orchestrator has successful_calls >= 0,
   failed_calls >= 0 and successful_calls + failed_calls <= total_calls,
   on every path, the early abort on quota exhaustion included *)
C15_CallsAccounted ==
    /\ c_result.kind = "result" => Accounted(c_result.value)
    /\ \A name \in DOMAIN results : Accounted(results[name])

C15_Witness ==
    /\ kind = "youtube"
    /\ c_pc = "returned"
    /\ c_result.kind = "result"
    /\ c_result.value.successful_calls > 0
    /\ c_result.value.failed_calls > 0
    /\ \E k \in 1..Len(c_result.value.errors) :
          c_result.value.errors[k].msg = "YouTube quota exceeded, stopped collection"

----------------------------------------------------------------------------
(* SpecScore: the momentum functions on sampled inputs *)

ScoreValues == {0, 30, 50, 51, 75, 100}
ScoreInputs == {None} \cup ScoreValues

InitScore ==
    /\ s_reddit \in ScoreInputs
    /\ s_youtube \in ScoreInputs
    /\ s_google \in ScoreInputs
    /\ s_spike \in BOOLEAN
    /\ s_safe = Unscored /\ s_strict = Unscored
    /\ s_pc = "input"
    /\ RetryIdle /\ CollectIdle /\ OrchIdle /\ LimiterIdle /\ QuotaIdle /\ AppIdle

otherThanScore == <<retryVars, collectVars, orchVars, limiterVars, quotaVars, appVars>>

NextScore == Score /\ UNCHANGED otherThanScore

SpecScore == InitScore /\ [][NextScore]_vars

AllPresent == None \notin {s_reddit, s_youtube, s_google}
NonePresent == s_reddit = None /\ s_youtube = None /\ s_google = None

(* C18: when all three continuous signals are present,
   calculate_momentum_score_safe returns exactly the same
   (score, confidence) pair as calculate_momentum_score, for both values of
   the traffic-spike flag *)
C18_SafeEqualsStrict ==
    (s_pc = "scored" /\ AllPresent) => s_safe = s_strict

(* numerator and denominator of the weighted average over the present
   signals: sums of score * weight and of weight *)
PresentScoreWeight ==
    (IF s_reddit # None THEN s_reddit * REDDIT_WEIGHT ELSE 0)
        + (IF s_youtube # None THEN s_youtube * YOUTUBE_WEIGHT ELSE 0)
        + (IF s_google # None THEN s_google * GOOGLE_TRENDS_WEIGHT ELSE 0)

PresentWeight ==
    (IF s_reddit # None THEN REDDIT_WEIGHT ELSE 0)
        + (IF s_youtube # None THEN YOUTUBE_WEIGHT ELSE 0)
        + (IF s_google # None THEN GOOGLE_TRENDS_WEIGHT ELSE 0)

(* C19: in calculate_momentum_score_safe a None signal is left out of both
   the numerator and the denominator of the weighted average: the base
   score is the sum over the present signals of score * weight divided by
   the sum over the present signals of weight *)
C19_AbsentSignalExcluded ==
    (s_pc = "scored" /\ ~NonePresent) =>
        s_safe.score = Round2(ApplyBonus(<<PresentScoreWeight, PresentWeight>>, s_spike))

C19_Witness ==
    /\ s_pc = "scored"
    /\ s_reddit = 75 /\ s_youtube = None /\ s_google = 30 /\ ~s_spike
    /\ s_safe.score = 5216

(* C20: calculate_momentum_score_safe returns exactly (0.0, 'unknown') when
   all three continuous signals are None, whether the traffic-spike flag is
   True or False *)
C20_NoSignalIsUnknown ==
    (s_pc = "scored" /\ NonePresent) => s_safe = MomentumResult(0, "unknown")

C20_Witness ==
    s_pc = "scored" /\ NonePresent /\ s_spike /\ s_safe = MomentumResult(0, "unknown")


(* the number of continuous signals strictly above 50, a None signal never
   counting, plus one for the traffic spike *)
SignalsAbove50 ==
    Cardinality({i \in 1..3 :
        LET v == <<s_reddit, s_youtube, s_google>>[i] IN v # None /\ v > 50})
        + (IF s_spike THEN 1 ELSE 0)

(* C21: in calculate_momentum_score, signals_present counts the continuous
   signals strictly greater than 50 plus the traffic spike when True (a
   signal of exactly 50 does not count), and confidence is 'high' iff the
   count is 4, 'medium' iff it is 2 or 3, 'low' iff it is 1, 'unknown' iff
   it is 0 *)
C21_StrictConfidence ==
    (s_pc = "scored" /\ AllPresent) =>
        /\ s_strict.confidence = "high" <=> SignalsAbove50 = 4
        /\ s_strict.confidence = "medium" <=> SignalsAbove50 \in {2, 3}
        /\ s_strict.confidence = "low" <=> SignalsAbove50 = 1
        /\ s_strict.confidence = "unknown" <=> SignalsAbove50 = 0

C21_Witness ==
    /\ s_pc = "scored"
    /\ s_reddit = 50 /\ s_youtube = 51 /\ s_google = 75 /\ s_spike
    /\ s_strict.confidence = "medium"

(* C22: in calculate_momentum_score_safe with at least one continuous signal
   present, signals_present counts only the non-None continuous signals
   strictly greater than 50 plus the traffic spike when True, and confidence
   is 'high' iff the count is at least 3, 'medium' iff it is 2, 'low' iff it
   is 1, 'unknown' iff it is 0 *)
C22_SafeConfidence ==
    (s_pc = "scored" /\ ~NonePresent) =>
        /\ s_safe.confidence = "high" <=> SignalsAbove50 >= 3
        /\ s_safe.confidence = "medium" <=> SignalsAbove50 = 2
        /\ s_safe.confidence = "low" <=> SignalsAbove50 = 1
        /\ s_safe.confidence = "unknown" <=> SignalsAbove50 = 0

C22_Witness ==
    /\ s_pc = "scored"
    /\ s_reddit = 51 /\ s_youtube = None /\ s_google = 75 /\ s_spike
    /\ s_safe.confidence = "high"

(* the scores, in hundredths, that the two functions return for the stored
   signals when the traffic spike is False *)
StrictScoreNoSpike == calculate_momentum_score(s_reddit, s_youtube, s_google, FALSE).score
SafeScoreNoSpike == calculate_momentum_score_safe(s_reddit, s_youtube, s_google, FALSE).score

(* C23 as stated: for the same continuous signals, the momentum score
   returned with traffic spike True equals 1.5 times the score returned with
   traffic spike False, in both calculate_momentum_score and
   calculate_momentum_score_safe *)
C23_SpikeIsExactlyOneAndAHalf ==
    (s_pc = "scored" /\ s_spike) =>
        /\ 2 * s_safe.score = 3 * SafeScoreNoSpike
        /\ AllPresent => 2 * s_strict.score = 3 * StrictScoreNoSpike

(* C23 as amended: both returned scores are rounded to two decimals, so the
   score returned with traffic spike True is within 0.01 of 1.5 times the
   score returned with traffic spike False *)
C23_SpikeWithinRounding ==
    (s_pc = "scored" /\ s_spike) =>
        /\ 2 * s_safe.score - 3 * SafeScoreNoSpike \in -2..2
        /\ AllPresent => 2 * s_strict.score - 3 * StrictScoreNoSpike \in -2..2

C23_Witness ==
    /\ s_pc = "scored" /\ s_spike
    /\ s_reddit = 75 /\ s_youtube = None /\ s_google = 30
    /\ s_safe.score = 7825 /\ SafeScoreNoSpike = 5216
----------------------------------------------------------------------------
(* SpecNorm: the three normalizers on sampled arguments: negative, zero,   *)
(* ordinary, very large, and ints beyond the range of a float              *)

IntSamples == {<<-5, 0>>, <<0, 0>>, <<5, 3>>, <<1, 18>>, <<1, 400>>}
HourSamples == {<<-3, 0>>, <<0, 0>>, <<5, -1>>, <<2, 0>>, <<1, 3>>, <<1, 300>>}
SizeSamples == {<<-1, 1>>, <<0, 0>>, <<1, 0>>, <<1, 6>>, <<1, 400>>}
InterestSamples == {<<-5, 1>>, <<0, 0>>, <<5, 1>>, <<15, 1>>, <<1, 400>>}
HistoryValues == {<<0, 0>>, <<5, 1>>, <<1, 2>>, <<1, 400>>}
Histories == UNION {[1..n -> HistoryValues] : n \in 0..MaxHistory}

InitNorm ==
    /\ \/ /\ n_fn = "normalize_reddit_score"
          /\ n_args \in IntSamples \X HourSamples \X SizeSamples
       \/ /\ n_fn = "normalize_youtube_traction"
          /\ n_args \in IntSamples \X HourSamples \X IntSamples \X SizeSamples
       \/ /\ n_fn = "calculate_google_trends_spike"
          /\ n_args \in InterestSamples \X Histories
    /\ n_out = NotCalled
    /\ n_pc = "input"
    /\ RetryIdle /\ CollectIdle /\ OrchIdle /\ LimiterIdle /\ QuotaIdle /\ ScoreIdle
    /\ PipelineIdle /\ LateIdle

otherThanNorm == <<retryVars, collectVars, orchVars, limiterVars, quotaVars, scoreVars,
                  pipelineVars, lateVars>>

NextNorm ==
    \/ (NormalizeReddit /\ UNCHANGED otherThanNorm)
    \/ (NormalizeYouTube /\ UNCHANGED otherThanNorm)
    \/ (GoogleTrendsSpike /\ UNCHANGED otherThanNorm)

SpecNorm == InitNorm /\ [][NextNorm]_vars

(* C24: normalize_reddit_score, normalize_youtube_traction and
   calculate_google_trends_spike return a value in [0, 100] and never raise,
   for all inputs including zero, negative and very large values and
   histories of any length *)
C24_NormalizersTotal ==
    n_pc = "done" => n_out.kind = "returned" /\ n_out.value \in 0..10000

(* C36: normalize_youtube_traction returns 0 whenever views is 0, for any
   likes, hours since publish and subscriber count *)
C36_ZeroViewsScoreZero ==
    (n_pc = "done" /\ n_fn = "normalize_youtube_traction" /\ n_args[1] = <<0, 0>>)
        => n_out.kind = "returned" /\ n_out.value = 0
----------------------------------------------------------------------------
(* SpecPipeline: manual triggers, the scheduled job and its retry running  *)
(* concurrently against one database                                       *)

InitPipeline ==
    /\ p_collections = <<>> /\ p_jobs = {} /\ p_failures = 0
    /\ p_proc = [p \in 1..(MaxManual + MaxDaily) |->
                    Process(IF p <= MaxManual THEN "manual" ELSE "daily")]
    /\ RetryIdle /\ CollectIdle /\ OrchIdle /\ LimiterIdle /\ QuotaIdle /\ ScoreIdle
    /\ NormIdle /\ LateIdle

otherThanPipeline == <<retryVars, collectVars, limiterVars, quotaVars, scoreVars, normVars,
                      lateVars>>

(* collect_all's frame is local to the run that opened it, and the steps
   that fill it change nothing another trigger reads: a step another
   trigger could take while the frame is open is taken before the frame
   opens instead *)
FrameClosed == o_pc = "idle"

TriggerStep ==
    \E p \in 1..Len(p_proc) :
        \/ StartManual(p)
        \/ StartDaily(p)
        \/ TriggerCheck(p)
        \/ TriggerCreate(p)
        \/ TriggerFinish(p)

NextPipeline ==
    \/ (FrameClosed /\ TriggerStep /\ UNCHANGED <<orchVars, otherThanPipeline>>)
    \/ (FrameClosed /\ StartRetry /\ UNCHANGED <<orchVars, otherThanPipeline>>)
    \/ (\E p \in 1..Len(p_proc) : RunCollect(p) /\ UNCHANGED otherThanPipeline)
    \/ (\E p \in 1..Len(p_proc) : RunFinish(p) /\ UNCHANGED otherThanPipeline)

SpecPipeline == InitPipeline /\ [][NextPipeline]_vars

(* the DataCollection row of the run that trigger p started *)
RowOf(p) == p_collections[p_proc[p].cid]

(* trigger p started a run and the run is over *)
RunOver(p) == p_proc[p].cid # 0 /\ p_proc[p].pc \in {"after_run", "done"}

(* C25: a collection run in which some but not all collectors crash or
   report per-item failures ends with the DataCollection record in status
   'completed' (not 'failed'), and every trend stored for that run has a
   momentum score *)
C25_PartialRunCompletes ==
    [][\A p \in 1..Len(p_proc) :
          (p_proc[p].pc = "collecting" /\ p_proc'[p].pc # "collecting"
              /\ RunProfile = "partial") =>
                /\ p_collections'[p_proc[p].cid].status = "completed"
                /\ p_collections'[p_proc[p].cid].trends > 0 =>
                       p_collections'[p_proc[p].cid].scored]_vars

(* C26: at any time at most one DataCollection is in status 'in_progress':
   a manual trigger, a scheduled trigger or a scheduled retry that finds an
   in-progress collection starts no new one, also when two triggers run
   concurrently *)
C26_AtMostOneInProgress == Cardinality(InProgress) <= 1

(* the scheduled collection of trigger p failed: its run ended in status
   'failed', or the trigger itself ended in its exception handler *)
ScheduledCollectionFailed(p) ==
    /\ p_proc[p].type = "daily" /\ p_proc[p].pc = "done"
    /\ \/ p_proc[p].handled = "incremented"
       \/ p_proc[p].cid # 0 /\ RowOf(p).status = "failed"

Started(type) == {p \in 1..Len(p_proc) : p_proc[p].type = type /\ p_proc[p].pc # "idle"}

(* C27: a failed scheduled collection schedules exactly one retry job (id
   'daily_collection_retry', replacing any pending one), and a failed retry
   schedules no further retry, so one daily trigger leads to at most two
   collection attempts *)
C27_OneRetryPerFailure ==
    /\ \A p \in 1..Len(p_proc) : ScheduledCollectionFailed(p) => p_proc[p].scheduled = 1
    /\ \A p \in 1..Len(p_proc) : p_proc[p].type = "retry" => p_proc[p].scheduled = 0
    /\ p_jobs \subseteq {RetryJob}
    /\ Cardinality({p \in Started("daily") \cup Started("retry") : p_proc[p].cid # 0})
           <= 2 * Cardinality(Started("daily"))

(* C28: in trigger_daily_collection, when the collection run fails (its
   DataCollection ends in status 'failed') the scheduler failure count is
   incremented and a retry is scheduled; the failure count is reset only
   after a run that completed successfully *)
C28_FailedRunCounted ==
    \A p \in 1..Len(p_proc) :
        (p_proc[p].type = "daily" /\ p_proc[p].pc = "done") =>
            /\ (p_proc[p].cid # 0 /\ RowOf(p).status = "failed") =>
                   p_proc[p].handled = "incremented" /\ p_proc[p].scheduled = 1
            /\ p_proc[p].handled = "reset" =>
                   p_proc[p].cid # 0 /\ RowOf(p).status = "completed"

(* the event loop runs every task that is ready: run_collection is started
   once its row is committed, and it goes on when collect_all is over *)
SpecPipelineLive ==
    /\ SpecPipeline
    /\ WF_vars(\E p \in 1..Len(p_proc) : RunCollect(p) /\ UNCHANGED otherThanPipeline)
    /\ WF_vars(\E p \in 1..Len(p_proc) : RunFinish(p) /\ UNCHANGED otherThanPipeline)

(* row c exists and its run is not over *)
RunPending(c) == c <= Len(p_collections) /\ p_collections[c].status = "in_progress"

(* row c exists in a terminal status, with completed_at set *)
RunEnded(c) ==
    /\ c <= Len(p_collections)
    /\ p_collections[c].status \in {"completed", "failed"}
    /\ p_collections[c].completed_at # "NULL"

(* this step leaves the status of every row that has a terminal status *)
TerminalStatusKept ==
    \A c \in 1..Len(p_collections) :
        p_collections[c].status \in {"completed", "failed"} =>
            /\ c <= Len(p_collections')
            /\ p_collections'[c].status = p_collections[c].status

(* C39: every DataCollection created in status 'in_progress' whose
   run_collection task runs eventually reaches status 'completed' or
   'failed' with completed_at set, and once it has reached either terminal
   status its status never changes again. Rows are never deleted and a
   terminal status is kept, so a row in progress has ended by the next time
   every row has, which happens again and again *)
C39_RunReachesTerminalStatus ==
    /\ []<>(\A c \in 1..Len(p_collections) : RunEnded(c))
    /\ [][TerminalStatusKept]_vars

C39_Witness ==
    \E p \in 1..Len(p_proc) :
        /\ p_proc[p].cid # 0
        /\ p_proc[p].pc = "done"
        /\ RunEnded(p_proc[p].cid)
        /\ \E c \in 1..Len(p_collections) : RunPending(c)
----------------------------------------------------------------------------
(* SpecDay: limiter instances of successive processes reading and          *)
(* incrementing the quota rows while the date moves on                     *)

InitDay ==
    /\ d_today = 1
    /\ d_table = [k \in QuotaKeys |-> <<>>]
    /\ d_tx = d_table
    /\ d_proc = 1
    /\ d_limiters = <<>>
    /\ d_read = <<>>
    /\ d_spent = [k \in QuotaKeys |-> 0]
    /\ d_unsaved = [k \in QuotaKeys |-> 0]
    /\ RetryIdle /\ CollectIdle /\ OrchIdle /\ LimiterIdle /\ QuotaIdle /\ ScoreIdle
    /\ NormIdle /\ PipelineIdle /\ MoreIdle

otherThanDay == <<retryVars, collectVars, orchVars, limiterVars, quotaVars, scoreVars,
                 normVars, pipelineVars, moreVars>>

NextDay ==
    \/ (\E api \in ApiNames : NewLimiter(api) /\ UNCHANGED otherThanDay)
    \/ (\E i \in 1..Len(d_limiters) : DayGetUsage(i) /\ UNCHANGED otherThanDay)
    \/ (\E i \in 1..Len(d_limiters) : \E units \in 1..MaxUnits :
           DayIncrement(i, units) /\ UNCHANGED otherThanDay)
    \/ (DayCommit /\ UNCHANGED otherThanDay)
    \/ (Restart /\ UNCHANGED otherThanDay)
    \/ (Midnight /\ UNCHANGED otherThanDay)

SpecDay == InitDay /\ [][NextDay]_vars

(* the units passed to increment_usage for (api, day) by every instance of
   every process so far, as far as they were not rolled back *)
Accumulated(api, day) == d_spent[<<api, day>>] + d_unsaved[<<api, day>>]

(* instance i has just returned from get_usage_today or increment_usage *)
UsageCall(i) ==
    DayGetUsage(i) \/ (\E units \in 1..MaxUnits : DayIncrement(i, units))

(* C29: the daily quota counter is keyed by (api_name, calendar date).
   What an instance reads is the usage accumulated under its api_name on
   the current date by all instances, earlier ones of ended processes
   included, so it is 0 after the date changed until the first increment
   on the new date; and a call on one date leaves the rows of the other
   dates and of the other api_names as they were *)
C29_KeyedByApiAndDate ==
    [][\A i \in 1..Len(d_limiters) :
          UsageCall(i) =>
             /\ d_read'[i][d_today] = Accumulated(d_limiters[i].api_name, d_today)'
             /\ \A k \in QuotaKeys :
                   k # <<d_limiters[i].api_name, d_today>> => d_tx'[k] = d_tx[k]]_vars

(* an instance of the second process read on date 1 what an instance of
   the first process had accumulated, and read 0 on date 2 while the row of
   date 1 still holds that usage *)
C29_Witness ==
    /\ Len(d_limiters) = 2
    /\ d_limiters[1].proc = 1 /\ d_limiters[2].proc = 2
    /\ d_limiters[1].api_name = d_limiters[2].api_name
    /\ d_today = 2
    /\ d_read[1][1] > 0
    /\ d_read[2][1] = d_read[1][1]
    /\ d_read[2][2] = 0
    /\ d_tx[<<d_limiters[2].api_name, 1>>] = <<d_read[2][1]>>

----------------------------------------------------------------------------
(* SpecTrends: successive collect() calls on one GoogleTrendsCollector     *)

InitTrends ==
    /\ gt_clock = 0 /\ gt_last = -1 /\ gt_pc = "idle" /\ gt_n = 0 /\ gt_idx = 0
    /\ gt_collects = 0 /\ gt_wake = 0 /\ gt_start = -1 /\ gt_end = -1
    /\ gt_outcome = "none"
    /\ RetryIdle /\ CollectIdle /\ OrchIdle /\ LimiterIdle /\ QuotaIdle /\ ScoreIdle
    /\ NormIdle /\ PipelineIdle /\ DayIdle /\ UpdateIdle /\ SharedLimiterIdle

otherThanTrends == <<retryVars, collectVars, orchVars, limiterVars, quotaVars, scoreVars,
                    normVars, pipelineVars, dayVars, updateVars,
                    sharedLimiterVars>>

NextTrends ==
    \/ (TrendsCollect /\ UNCHANGED otherThanTrends)
    \/ (TrendsHead /\ UNCHANGED otherThanTrends)
    \/ (TrendsWake /\ UNCHANGED otherThanTrends)
    \/ (TrendsFetch /\ UNCHANGED otherThanTrends)
    \/ (TrendsReturn /\ UNCHANGED otherThanTrends)

SpecTrends == InitTrends /\ [][NextTrends]_vars

(* C34: on one GoogleTrendsCollector instance every topic fetch starts at
   least 60 seconds after the previous topic fetch ended, within one
   collect() call and across successive collect() calls, whether the
   previous fetch succeeded or failed *)
C34_SixtySecondsBetweenFetches ==
    (gt_pc = "fetching" /\ gt_end # -1) => gt_start >= gt_end + RequestDelaySeconds

(* the first fetch of the second collect() call, after a fetch that raised,
   started after a sleep that made the distance exactly 60 seconds or more *)
C34_Witness ==
    /\ gt_pc = "fetching" /\ gt_collects = 1 /\ gt_idx = 1
    /\ gt_outcome = "exception"
    /\ gt_wake > gt_end
    /\ gt_start >= gt_end + RequestDelaySeconds
----------------------------------------------------------------------------
(* SpecUpdate: calculate_and_update_scores on a collection of stored trends *)

RawValues == {None, 1}
BonusValues == {"NULL", "true"}

(* view_count and like_count of a video: none, both, or only the views *)
VideoValues == {<<None, None>>, <<1, None>>, <<1, 1>>}

TrendRows ==
    { TrendRow(reddit, video[1], video[2], interest, bonus) :
        reddit \in RawValues, video \in VideoValues,
        interest \in RawValues, bonus \in BonusValues }

InitUpdate ==
    /\ u_stored \in UNION { [1..n -> TrendRows] : n \in 0..MaxTrends }
    /\ u_trends = <<>> /\ u_idx = 0 /\ u_degraded = 0 /\ u_pc = "called"
    /\ RetryIdle /\ CollectIdle /\ OrchIdle /\ LimiterIdle /\ QuotaIdle /\ ScoreIdle
    /\ NormIdle /\ PipelineIdle /\ DayIdle /\ TrendsIdle /\ SharedLimiterIdle

otherThanUpdate == <<retryVars, collectVars, orchVars, limiterVars, quotaVars, scoreVars,
                    normVars, pipelineVars, dayVars, trendsVars,
                    sharedLimiterVars>>

NextUpdate ==
    \/ (UpdateLoad /\ UNCHANGED otherThanUpdate)
    \/ (UpdateTrend /\ UNCHANGED otherThanUpdate)
    \/ (UpdateCommit /\ UNCHANGED otherThanUpdate)

SpecUpdate == InitUpdate /\ [][NextUpdate]_vars

(* none of the three platform scores of the trend is there *)
NoContinuousSignal(t) ==
    /\ t.reddit_velocity_score = None
    /\ t.youtube_traction_score = None
    /\ t.google_trends_spike_score = None

(* C35: after calculate_and_update_scores on a collection with at least one
   trend every trend of the collection has a non-null momentum_score and a
   confidence_level in {'high', 'medium', 'low'}: a combiner result of
   'unknown' is stored as 'low', and a trend with no continuous signal gets
   momentum_score 0.0 *)
C35_EveryTrendScored ==
    (u_pc = "returned" /\ Len(u_stored) > 0) =>
        \A i \in 1..Len(u_stored) :
            LET t == u_stored[i] IN
            /\ t.momentum_score # None
            /\ t.confidence_level \in {"high", "medium", "low"}
            /\ t.combiner = "unknown" => t.confidence_level = "low"
            /\ NoContinuousSignal(t) => t.momentum_score = 0

(* two trends: one without any signal, stored with 0.0 and 'low' for the
   combiner's 'unknown', one with all three signals and the bonus *)
C35_Witness ==
    /\ u_pc = "returned" /\ Len(u_stored) = 2
    /\ NoContinuousSignal(u_stored[1])
    /\ u_stored[1].momentum_score = 0
    /\ u_stored[1].combiner = "unknown" /\ u_stored[1].confidence_level = "low"
    /\ PlatformsMissing(u_stored[2].reddit_velocity_score,
                        u_stored[2].youtube_traction_score,
                        u_stored[2].google_trends_spike_score) = 0
    /\ u_stored[2].confidence_level = "high"
    /\ u_degraded = 1
----------------------------------------------------------------------------
(* SpecSharedLimiter: tasks calling acquire() on one limiter               *)

InitSharedLimiter ==
    /\ rl_limit \in 1..MaxLimit
    /\ rl_window \in 1..MaxWindow
    /\ rl_requests = <<>> /\ rl_clock = 0 /\ rl_admitted = <<>>
    /\ rl_wake = 0 /\ rl_pc = "ready"
    /\ lc_pc = [t \in Tasks |-> "ready"]
    /\ lc_wake = [t \in Tasks |-> 0]
    /\ RetryIdle /\ CollectIdle /\ OrchIdle /\ QuotaIdle /\ ScoreIdle
    /\ NormIdle /\ PipelineIdle /\ DayIdle /\ TrendsIdle /\ UpdateIdle

otherThanSharedLimiter ==
    <<retryVars, collectVars, orchVars, quotaVars, scoreVars, normVars, pipelineVars,
      dayVars, trendsVars, updateVars>>

NextSharedLimiter ==
    \/ (\E t \in Tasks : TaskAcquire(t) /\ UNCHANGED otherThanSharedLimiter)
    \/ (\E t \in Tasks : TaskWake(t) /\ UNCHANGED otherThanSharedLimiter)

SpecSharedLimiter == InitSharedLimiter /\ [][NextSharedLimiter]_vars

(* this step ends the sleep of some task and records its request *)
TaskWoke == \E t \in Tasks : lc_pc[t] = "sleeping" /\ lc_pc'[t] = "ready"

(* the requests recorded in the window that ends at the newest one *)
AdmittedWithNewest ==
    AdmittedInWindow(rl_admitted[Len(rl_admitted)])

(* C37: when several tasks call acquire() concurrently on one limiter that
   is at capacity, the number of requests admitted within any interval of
   length window_seconds never exceeds limit: a task that waited for the
   oldest timestamp is admitted, when its sleep ends, only into a window
   that then holds at most limit requests, its own included *)
C37_WaitersNotAdmittedTogether ==
    [][TaskWoke => (AdmittedWithNewest <= rl_limit)']_vars
====
